---- MODULE Spec2Model ----
(***************************************************************************)
(* Overlay-Chemlab core: the SMILES tokenizer, the validity check, the     *)
(* graph builder (parseSMILES) and the descriptors derived from them.      *)
(*                                                                         *)
(* A JavaScript string is a sequence of one-character strings, indexed     *)
(* from 0 by At.  A run takes one notation string and passes it through    *)
(* tokenize (one step per loop iteration), validate, parseSMILES (one step *)
(* per loop iteration) and then each descriptor in turn.                   *)
(***************************************************************************)
EXTENDS Integers, Sequences, FiniteSets, TLC, Bags

\* ------------------------------------------------------------------ values

\* JavaScript's undefined, where a number is expected (Array.prototype.pop
\* on an empty array).
Undefined == -2

\* JavaScript's NaN (parseInt of text that starts with no digit).
NaN == -1000

Min(a, b) == IF a < b THEN a ELSE b

Max(a, b) == IF a > b THEN a ELSE b

\* ------------------------------------------------------------- characters

Digits == <<"0", "1", "2", "3", "4", "5", "6", "7", "8", "9">>

UpperLetters ==
  <<"A", "B", "C", "D", "E", "F", "G", "H", "I", "J", "K", "L", "M",
    "N", "O", "P", "Q", "R", "S", "T", "U", "V", "W", "X", "Y", "Z">>

LowerLetters ==
  <<"a", "b", "c", "d", "e", "f", "g", "h", "i", "j", "k", "l", "m",
    "n", "o", "p", "q", "r", "s", "t", "u", "v", "w", "x", "y", "z">>

PosIn(seq, c) == CHOOSE k \in 1..Len(seq) : seq[k] = c

\* ch >= '0' && ch <= '9'
IsDigit(c) == \E k \in 1..Len(Digits) : Digits[k] = c

DigitVal(c) == PosIn(Digits, c) - 1

IsUpper(c) == \E k \in 1..Len(UpperLetters) : UpperLetters[k] = c

\* /[a-z]/.test(c)
IsLower(c) == \E k \in 1..Len(LowerLetters) : LowerLetters[k] = c

\* /[A-Za-z]/.test(c)
IsLetter(c) == IsUpper(c) \/ IsLower(c)

toUpperCase(c) == IF IsLower(c) THEN UpperLetters[PosIn(LowerLetters, c)] ELSE c

toLowerCase(c) == IF IsUpper(c) THEN LowerLetters[PosIn(UpperLetters, c)] ELSE c

strToLowerCase(s) == [k \in 1..Len(s) |-> toLowerCase(s[k])]

\* The UTF-16 code unit of a character: the order of Array.prototype.sort.
CharCode(c) ==
  IF IsDigit(c) THEN 48 + DigitVal(c)
  ELSE IF IsUpper(c) THEN 64 + PosIn(UpperLetters, c)
  ELSE IF IsLower(c) THEN 96 + PosIn(LowerLetters, c)
  ELSE CASE c = "#" -> 35 [] c = "%" -> 37 [] c = "(" -> 40 [] c = ")" -> 41
         [] c = "+" -> 43 [] c = "-" -> 45 [] c = "." -> 46 [] c = "/" -> 47
         [] c = ":" -> 58 [] c = "=" -> 61 [] c = "@" -> 64 [] c = "[" -> 91
         [] c = "]" -> 93 [] c = "," -> 44 [] c = "|" -> 124 [] c = "\\" -> 92
         [] OTHER -> 0

\* --------------------------------------------------------------- strings

\* s[i], i counted from 0.
At(s, i) == s[i + 1]

\* s.substring(a, b) for 0 <= a
substring(s, a, b) == SubSeq(s, a + 1, Min(b, Len(s)))

\* s.indexOf(c, from): the first index >= from holding c, or -1.
indexOf(s, c, from) ==
  LET hits == {k \in from..(Len(s) - 1) : At(s, k) = c}
  IN IF hits = {} THEN -1 ELSE CHOOSE k \in hits : \A j \in hits : k <= j

\* parseInt(t, 10) of a text of at most two characters (no white space).
parseInt2(t) ==
  IF Len(t) >= 1 /\ IsDigit(t[1])
  THEN IF Len(t) >= 2 /\ IsDigit(t[2])
       THEN 10 * DigitVal(t[1]) + DigitVal(t[2])
       ELSE DigitVal(t[1])
  ELSE IF Len(t) >= 2 /\ t[1] \in {"+", "-"} /\ IsDigit(t[2])
       THEN IF t[1] = "-" THEN 0 - DigitVal(t[2]) ELSE DigitVal(t[2])
       ELSE NaN

\* TWO_LETTER.has(t)
TWO_LETTER(t) == t = <<"C", "l">> \/ t = <<"B", "r">>

\* ------------------------------------------------------------- tokenize

Token(type, value, bracket, ring) ==
  [type |-> type, value |-> value, bracket |-> bracket, ring |-> ring]

\* Which branch of the tokenizer's loop body runs at position i.
TokKind(s, i) ==
  LET ch == At(s, i) IN
  IF ch = "(" THEN "branch_open"
  ELSE IF ch = ")" THEN "branch_close"
  ELSE IF ch \in {"-", "=", "#", ":"} THEN "bond"
  ELSE IF IsDigit(ch) THEN "ring"
  ELSE IF ch = "%" /\ i + 2 < Len(s) THEN "ring_percent"
  ELSE IF ch = "[" THEN "bracket"
  ELSE IF i + 1 < Len(s) /\ TWO_LETTER(substring(s, i, i + 2)) THEN "two_letter"
  ELSE IF IsLetter(ch) THEN "single_letter"
  ELSE "skip"

\* One iteration of the tokenizer's while loop on the state [i, tokens].
TokStep(s, st) ==
  LET i == st.i
      ch == At(s, i)
      kind == TokKind(s, i)
      close == indexOf(s, "]", i)
  IN CASE kind = "branch_open" ->
            [i |-> i + 1, tokens |-> Append(st.tokens, Token("branch_open", <<ch>>, FALSE, 0))]
       [] kind = "branch_close" ->
            [i |-> i + 1, tokens |-> Append(st.tokens, Token("branch_close", <<ch>>, FALSE, 0))]
       [] kind = "bond" ->
            [i |-> i + 1, tokens |-> Append(st.tokens, Token("bond", <<ch>>, FALSE, 0))]
       [] kind = "ring" ->
            [i |-> i + 1, tokens |-> Append(st.tokens, Token("ring", <<>>, FALSE, DigitVal(ch)))]
       [] kind = "ring_percent" ->
            [i |-> i + 3,
             tokens |-> Append(st.tokens,
                               Token("ring", <<>>, FALSE, parseInt2(substring(s, i + 1, i + 3))))]
       [] kind = "bracket" ->
            IF close = -1
            THEN [i |-> Len(s),
                  tokens |-> Append(st.tokens, Token("atom", substring(s, i, Len(s)), TRUE, 0))]
            ELSE [i |-> close + 1,
                  tokens |-> Append(st.tokens, Token("atom", substring(s, i + 1, close), TRUE, 0))]
       [] kind = "two_letter" ->
            [i |-> i + 2,
             tokens |-> Append(st.tokens, Token("atom", substring(s, i, i + 2), FALSE, 0))]
       [] kind = "single_letter" ->
            [i |-> i + 1, tokens |-> Append(st.tokens, Token("atom", <<ch>>, FALSE, 0))]
       [] OTHER ->
            [i |-> i + 1, tokens |-> st.tokens]

RECURSIVE TokRun(_, _)
TokRun(s, st) == IF st.i < Len(s) THEN TokRun(s, TokStep(s, st)) ELSE st.tokens

tokenize(s) == TokRun(s, [i |-> 0, tokens |-> <<>>])

\* ------------------------------------------------------------- validate

\* The for-of loop of the balance checks: "neg" at the first character that
\* takes the depth below zero, else the final depth.
RECURSIVE ScanDepth(_, _, _, _, _)
ScanDepth(s, open, close, k, depth) ==
  IF k > Len(s) THEN [neg |-> FALSE, depth |-> depth]
  ELSE LET d == depth + (IF s[k] = open THEN 1 ELSE 0) - (IF s[k] = close THEN 1 ELSE 0)
       IN IF d < 0 THEN [neg |-> TRUE, depth |-> d]
          ELSE ScanDepth(s, open, close, k + 1, d)

\* ringDigits after the loop over the tokens: the labels in insertion order,
\* a label deleted when it is seen while present.
RECURSIVE RingDigitsAfter(_, _)
RingDigitsAfter(tokens, n) ==
  IF n = 0 THEN <<>>
  ELSE LET m == RingDigitsAfter(tokens, n - 1)
           tok == tokens[n]
       IN IF tok.type # "ring" THEN m
          ELSE IF \E k \in 1..Len(m) : m[k] = tok.ring
               THEN SelectSeq(m, LAMBDA x : x # tok.ring)
               ELSE Append(m, tok.ring)

Invalid(error, keys) == [valid |-> FALSE, error |-> error, keys |-> keys]

\* The checks without the one for a parenthesis left open.
VerdictOpenUnchecked(p, b, tokens) ==
  LET ringDigits == RingDigitsAfter(tokens, Len(tokens))
  IN IF p.neg THEN Invalid("Unmatched closing parenthesis", <<>>)
     ELSE IF b.neg THEN Invalid("Unmatched closing bracket", <<>>)
     ELSE IF b.depth # 0 THEN Invalid("Unmatched opening bracket", <<>>)
     ELSE IF Len(ringDigits) > 0 THEN Invalid("Unclosed ring digit(s): ", ringDigits)
     ELSE IF ~(\E k \in 1..Len(tokens) : tokens[k].type = "atom")
          THEN Invalid("No atoms found", <<>>)
     ELSE [valid |-> TRUE, error |-> "", keys |-> <<>>]

\* The checks of validate in their order, given the two balance scans (p for
\* parentheses, b for brackets) and the tokens.
Verdict(p, b, tokens) ==
  LET ringDigits == RingDigitsAfter(tokens, Len(tokens))
  IN IF p.neg THEN Invalid("Unmatched closing parenthesis", <<>>)
     ELSE IF p.depth # 0 THEN Invalid("Unmatched opening parenthesis", <<>>)
     ELSE IF b.neg THEN Invalid("Unmatched closing bracket", <<>>)
     ELSE IF b.depth # 0 THEN Invalid("Unmatched opening bracket", <<>>)
     ELSE IF Len(ringDigits) > 0 THEN Invalid("Unclosed ring digit(s): ", ringDigits)
     ELSE IF ~(\E k \in 1..Len(tokens) : tokens[k].type = "atom")
          THEN Invalid("No atoms found", <<>>)
     ELSE [valid |-> TRUE, error |-> "", keys |-> <<>>]

\* validate(smiles); isString is typeof smiles === 'string'.
validate(isString, s) ==
  IF ~isString \/ Len(s) = 0 THEN Invalid("Empty SMILES string", <<>>)
  ELSE Verdict(ScanDepth(s, "(", ")", 1, 0), ScanDepth(s, "[", "]", 1, 0), tokenize(s))

\* ---------------------------------------------------------- parseSMILES

\* pendingBondOrder = null
Null == 0

\* ATOMIC_WEIGHTS[symbol], in thousandths; 0 for a symbol the table lacks
\* (ATOMIC_WEIGHTS[symbol] || 0).
ATOMIC_WEIGHTS(symbol) ==
  CASE symbol = <<"H">> -> 1008 [] symbol = <<"C">> -> 12011
    [] symbol = <<"N">> -> 14007 [] symbol = <<"O">> -> 15999
    [] symbol = <<"S">> -> 32065 [] symbol = <<"P">> -> 30974
    [] symbol = <<"F">> -> 18998 [] symbol = <<"C", "l">> -> 35453
    [] symbol = <<"B", "r">> -> 79904 [] symbol = <<"I">> -> 126904
    [] OTHER -> 0

\* AROMATIC_SET.has(ch)
AROMATIC_SET(ch) == ch \in {"c", "n", "o", "s", "p"}

\* s.replace(/^[0-9]+/, ''): the leading digits dropped.
RECURSIVE StripLeadingDigits(_)
StripLeadingDigits(s) ==
  IF Len(s) > 0 /\ IsDigit(s[1]) THEN StripLeadingDigits(Tail(s)) ELSE s

\* s.replace(/[heads][0-9]*/g, ''): every character of heads dropped
\* together with the digits that follow it.
RECURSIVE RemoveWithDigits(_, _)
RemoveWithDigits(s, heads) ==
  IF Len(s) = 0 THEN <<>>
  ELSE IF s[1] \in heads THEN RemoveWithDigits(StripLeadingDigits(Tail(s)), heads)
  ELSE <<s[1]>> \o RemoveWithDigits(Tail(s), heads)

\* s.replace(/@+/g, '')
RemoveAt(s) == SelectSeq(s, LAMBDA c : c # "@")

parseBracketAtom(inner) ==
  LET s1 == StripLeadingDigits(inner)
      s2 == RemoveAt(s1)
      s3 == RemoveWithDigits(s2, {"+", "-"})
      s == RemoveWithDigits(s3, {"H"})
      two == IF Len(s) >= 2 THEN <<toUpperCase(s[1]), toLowerCase(s[2])>> ELSE <<>>
  IN [aromatic |-> Len(s) >= 1 /\ s[1] = toLowerCase(s[1]) /\ IsLower(s[1]),
      symbol |-> IF Len(s) >= 2 /\ ATOMIC_WEIGHTS(two) # 0 THEN two
                 ELSE IF Len(s) >= 1 THEN <<toUpperCase(s[1])>>
                 ELSE <<"H">>]

\* ringOpenings, a Map kept as its entries in insertion order.
MapHas(m, key) == \E k \in 1..Len(m) : m[k].key = key

MapGet(m, key) == m[CHOOSE k \in 1..Len(m) : m[k].key = key].val

MapDelete(m, key) == SelectSeq(m, LAMBDA e : e.key # key)

MapSet(m, key, val) ==
  IF MapHas(m, key)
  THEN [k \in 1..Len(m) |-> IF m[k].key = key THEN [key |-> key, val |-> val] ELSE m[k]]
  ELSE Append(m, [key |-> key, val |-> val])

\* branchStack.pop(): undefined from an empty stack.
StackTop(stack) == IF Len(stack) = 0 THEN Undefined ELSE stack[Len(stack)]

StackPop(stack) == IF Len(stack) = 0 THEN stack ELSE SubSeq(stack, 1, Len(stack) - 1)

\* addAtom with the pending order left as it is.
addAtomKeepsOrder(st, symbol, aromatic) ==
  [st EXCEPT
     !.atoms = Append(@, [symbol |-> symbol, index |-> Len(st.atoms),
                          aromatic |-> aromatic]),
     !.bonds = IF st.prevAtomIdx >= 0
               THEN Append(@, [from |-> st.prevAtomIdx, to |-> Len(st.atoms),
                               order |-> IF st.pendingBondOrder # Null
                                           THEN st.pendingBondOrder ELSE 1])
               ELSE @,
     !.bondSyms = IF st.prevAtomIdx >= 0 THEN Append(@, st.pendingSym) ELSE @,
     !.prevAtomIdx = Len(st.atoms)]

\* addAtom(symbol, aromatic).  With no order pending and the new atom
\* aromatic, atoms[prevAtomIdx].aromatic is read: it throws when prevAtomIdx
\* indexes no atom.  bondSyms and pendingSym are history: the bond symbol
\* each bond was written with ("" for none).
addAtom(st, symbol, aromatic) ==
  LET idx == Len(st.atoms)
      order == IF st.pendingBondOrder # Null THEN st.pendingBondOrder ELSE 1
      bonded == st.prevAtomIdx >= 0
  IN [st EXCEPT
        !.atoms = Append(@, [symbol |-> symbol, index |-> idx, aromatic |-> aromatic]),
        !.threw = bonded /\ st.pendingBondOrder = Null /\ aromatic
                  /\ st.prevAtomIdx \notin 0..idx,
        !.bonds = IF bonded
                  THEN Append(@, [from |-> st.prevAtomIdx, to |-> idx, order |-> order])
                  ELSE @,
        !.bondSyms = IF bonded THEN Append(@, st.pendingSym) ELSE @,
        !.pendingBondOrder = Null,
        !.pendingSym = "",
        !.prevAtomIdx = idx]

\* handleRing with a closed label left in the map.
handleRingKeepsOpen(st, digit) ==
  IF MapHas(st.ringOpenings, digit)
  THEN [st EXCEPT
          !.bonds = Append(@, [from |-> MapGet(st.ringOpenings, digit),
                               to |-> st.prevAtomIdx,
                               order |-> IF st.pendingBondOrder # Null
                                           THEN st.pendingBondOrder ELSE 1]),
          !.bondSyms = Append(@, st.pendingSym),
          !.pendingBondOrder = Null,
          !.pendingSym = "",
          !.ringCount = @ + 1]
  ELSE [st EXCEPT !.ringOpenings = MapSet(@, digit, st.prevAtomIdx)]

handleRing(st, digit) ==
  IF MapHas(st.ringOpenings, digit)
  THEN LET openIdx == MapGet(st.ringOpenings, digit)
           order == IF st.pendingBondOrder # Null THEN st.pendingBondOrder ELSE 1
       IN [st EXCEPT
             !.ringOpenings = MapDelete(@, digit),
             !.bonds = Append(@, [from |-> openIdx, to |-> st.prevAtomIdx, order |-> order]),
             !.bondSyms = Append(@, st.pendingSym),
             !.pendingBondOrder = Null,
             !.pendingSym = "",
             !.ringCount = @ + 1]
  ELSE [st EXCEPT !.ringOpenings = MapSet(@, digit, st.prevAtomIdx)]

\* Which branch of parseSMILES's loop body runs at position i.
ParseKind(s, i) ==
  LET ch == At(s, i) IN
  IF ch = "(" THEN "branch_open"
  ELSE IF ch = ")" THEN "branch_close"
  ELSE IF ch \in {"-", "=", "#", ":"} THEN "bond"
  ELSE IF ch \in {"/", "\\"} THEN "stereo"
  ELSE IF IsDigit(ch) THEN "ring"
  ELSE IF ch = "%" /\ i + 2 < Len(s) THEN "ring_percent"
  ELSE IF ch = "[" THEN "bracket"
  ELSE IF i + 1 < Len(s) /\ TWO_LETTER(substring(s, i, i + 2)) THEN "two_letter"
  ELSE IF IsLetter(ch) THEN "single_letter"
  ELSE IF ch = "." THEN "dot"
  ELSE "skip"

BondOrderOf(ch) == CASE ch = "-" -> 1 [] ch = "=" -> 2 [] ch = "#" -> 3 [] ch = ":" -> 1

\* One iteration of parseSMILES's while loop.
ParseStep(s, st) ==
  LET i == st.i
      ch == At(s, i)
      kind == ParseKind(s, i)
      close == indexOf(s, "]", i)
      inner == substring(s, i + 1, IF close = -1 THEN Len(s) ELSE close)
      element == parseBracketAtom(inner)
      aromatic == AROMATIC_SET(ch)
  IN CASE kind = "branch_open" ->
            [st EXCEPT !.branchStack = Append(@, st.prevAtomIdx), !.i = i + 1]
       [] kind = "branch_close" ->
            [st EXCEPT !.prevAtomIdx = StackTop(st.branchStack),
                       !.branchStack = StackPop(@), !.i = i + 1]
       [] kind = "bond" ->
            [st EXCEPT !.pendingBondOrder = BondOrderOf(ch), !.pendingSym = ch, !.i = i + 1]
       [] kind = "stereo" ->
            [st EXCEPT !.i = i + 1]
       [] kind = "ring" ->
            [handleRing(st, DigitVal(ch)) EXCEPT !.i = i + 1]
       [] kind = "ring_percent" ->
            [handleRing(st, parseInt2(substring(s, i + 1, i + 3))) EXCEPT !.i = i + 3]
       [] kind = "bracket" ->
            [addAtom(st, element.symbol, element.aromatic)
               EXCEPT !.i = IF close = -1 THEN Len(s) ELSE close + 1]
       [] kind = "two_letter" ->
            [addAtom(st, substring(s, i, i + 2), FALSE) EXCEPT !.i = i + 2]
       [] kind = "single_letter" ->
            [addAtom(st, IF aromatic THEN <<toUpperCase(ch)>> ELSE <<ch>>, aromatic)
               EXCEPT !.i = i + 1]
       [] kind = "dot" ->
            [st EXCEPT !.prevAtomIdx = -1, !.i = i + 1]
       [] OTHER ->
            [st EXCEPT !.i = i + 1]

\* The locals of parseSMILES before its loop.
ParseInit ==
  [i |-> 0, atoms |-> <<>>, bonds |-> <<>>, branchStack |-> <<>>,
   ringOpenings |-> <<>>, prevAtomIdx |-> -1, pendingBondOrder |-> Null,
   ringCount |-> 0, threw |-> FALSE, bondSyms |-> <<>>, pendingSym |-> ""]

RECURSIVE ParseRun(_, _)
ParseRun(s, st) ==
  IF st.i < Len(s) /\ ~st.threw THEN ParseRun(s, ParseStep(s, st)) ELSE st

\* return { atoms, bonds, rings: ringCount }
ParseResult(st) == [atoms |-> st.atoms, bonds |-> st.bonds, rings |-> st.ringCount]

parseSMILES(s) == ParseResult(ParseRun(s, ParseInit))

\* ------------------------------------------------- valence and hydrogens

\* valences[element] of implicitHydrogens: -1 for an element the table lacks
\* (undefined).
valences(element) ==
  CASE element = <<"C">> -> 4 [] element = <<"N">> -> 3 [] element = <<"O">> -> 2
    [] element = <<"S">> -> 2 [] element = <<"P">> -> 3 [] element = <<"F">> -> 1
    [] element = <<"C", "l">> -> 1 [] element = <<"B", "r">> -> 1
    [] element = <<"I">> -> 1 [] OTHER -> -1

\* implicitHydrogens(element, bondOrderSum, aromatic) of the SMILES parser.
implicitHydrogens(element, bondOrderSum, aromatic) ==
  LET v == valences(element)
      effective == IF aromatic THEN v - 1 ELSE v
  IN IF v = -1 THEN 0 ELSE Max(0, effective - bondOrderSum)

\* VALENCES[symbol] of the drug-likeness module: -1 for undefined.
VALENCES(symbol) ==
  CASE symbol = <<"C">> -> 4 [] symbol = <<"N">> -> 3 [] symbol = <<"O">> -> 2
    [] symbol = <<"S">> -> 2 [] symbol = <<"P">> -> 3 [] symbol = <<"F">> -> 1
    [] symbol = <<"C", "l">> -> 1 [] symbol = <<"B", "r">> -> 1
    [] symbol = <<"I">> -> 1 [] OTHER -> -1

\* The rule without the valence an aromatic atom gives to its ring.
_implicitHFullValence(symbol, aromatic, bondOrderSum) ==
  LET v == VALENCES(symbol)
  IN IF v = -1 THEN 0 ELSE Max(0, v - bondOrderSum)

\* _implicitH(symbol, aromatic, bondOrderSum) of the drug-likeness module.
_implicitH(symbol, aromatic, bondOrderSum) ==
  LET v == VALENCES(symbol)
  IN IF v = -1 THEN 0 ELSE Max(0, (IF aromatic THEN v - 1 ELSE v) - bondOrderSum)

\* The valences table local to molecularWeight: -1 for undefined.
mwValences(symbol) ==
  CASE symbol = <<"C">> -> 4 [] symbol = <<"N">> -> 3 [] symbol = <<"O">> -> 2
    [] symbol = <<"S">> -> 2 [] symbol = <<"P">> -> 3 [] symbol = <<"F">> -> 1
    [] symbol = <<"C", "l">> -> 1 [] symbol = <<"B", "r">> -> 1
    [] symbol = <<"I">> -> 1 [] OTHER -> -1

\* The implicit-hydrogen rule written inline in molecularWeight's loop.
mwImplicitH(symbol, aromatic, bondOrderSum) ==
  LET v == mwValences(symbol)
      effective == IF aromatic THEN v - 1 ELSE v
  IN IF v # -1 THEN Max(0, effective - bondOrderSum) ELSE 0

\* ------------------------------------------------------------ atomCount

\* resolveElement(token)
resolveElement(token) ==
  LET stripped == RemoveAt(RemoveWithDigits(RemoveWithDigits(
                    StripLeadingDigits(token.value), {"H"}), {"+", "-"}))
      raw == IF token.bracket THEN stripped ELSE token.value
      two == <<toUpperCase(raw[1]), toLowerCase(raw[2])>>
      one == <<toUpperCase(raw[1])>>
  IN IF token.bracket /\ Len(raw) = 0 THEN <<"H">>
     ELSE IF Len(raw) = 1 /\ AROMATIC_SET(raw[1]) THEN one
     ELSE IF Len(raw) >= 2 /\ ATOMIC_WEIGHTS(two) # 0 THEN two
     ELSE IF ATOMIC_WEIGHTS(one) # 0 THEN one
     ELSE one \o strToLowerCase(Tail(raw))

\* tok.value.length === 1 && tok.value === tok.value.toLowerCase()
\*   && /[a-z]/.test(tok.value)
TokAromatic(tok) ==
  Len(tok.value) = 1 /\ tok.value = strToLowerCase(tok.value) /\ IsLower(tok.value[1])

\* atomCount's first loop: the atoms with the bond orders between
\* consecutive atoms added.  st = [atoms, atomStack, prevAtomIdx, pendingBond].
RECURSIVE CountPass1(_, _, _)
CountPass1(tokens, k, st) ==
  IF k > Len(tokens) THEN st
  ELSE LET tok == tokens[k]
           idx == Len(st.atoms)
           order == CASE st.pendingBond = "=" -> 2 [] st.pendingBond = "#" -> 3
                      [] OTHER -> 1
           pushed == Append(st.atoms,
                            [element |-> resolveElement(tok), aromatic |-> TokAromatic(tok),
                             bondOrderSum |-> 0, bracket |-> tok.bracket, raw |-> tok.value])
           bonded == IF st.prevAtomIdx >= 0
                     THEN [pushed EXCEPT ![st.prevAtomIdx + 1].bondOrderSum = @ + order,
                                         ![idx + 1].bondOrderSum = @ + order]
                     ELSE pushed
       IN CountPass1(tokens, k + 1,
            CASE tok.type = "atom" ->
                   [st EXCEPT !.atoms = bonded, !.pendingBond = "", !.prevAtomIdx = idx]
              [] tok.type = "bond" ->
                   [st EXCEPT !.pendingBond = tok.value[1]]
              [] tok.type = "branch_open" ->
                   [st EXCEPT !.atomStack = Append(@, st.prevAtomIdx)]
              [] tok.type = "branch_close" ->
                   [st EXCEPT !.prevAtomIdx = StackTop(st.atomStack),
                              !.atomStack = StackPop(@)]
              [] OTHER -> st)

\* atomCount's second loop, over the ring labels.
\* st = [atoms, ringOpens, atomIdx, threw]; atoms[openIdx] of an index that
\* holds no atom is undefined, and reading its bondOrderSum throws.
RECURSIVE CountPass2(_, _, _)
CountPass2(tokens, k, st) ==
  IF k > Len(tokens) \/ st.threw THEN st
  ELSE LET tok == tokens[k]
           atomIdx == IF tok.type = "atom" THEN st.atomIdx + 1 ELSE st.atomIdx
           openIdx == MapGet(st.ringOpens, tok.ring)
           n == Len(st.atoms)
       IN CountPass2(tokens, k + 1,
            IF tok.type # "ring" THEN [st EXCEPT !.atomIdx = atomIdx]
            ELSE IF MapHas(st.ringOpens, tok.ring)
                 THEN IF openIdx \in 0..(n - 1) /\ atomIdx \in 0..(n - 1)
                      THEN [st EXCEPT
                              !.ringOpens = MapDelete(@, tok.ring),
                              !.atoms = [a \in 1..n |->
                                 [st.atoms[a] EXCEPT !.bondOrderSum =
                                    @ + (IF a = openIdx + 1 THEN 1 ELSE 0)
                                      + (IF a = atomIdx + 1 THEN 1 ELSE 0)]]]
                      ELSE [st EXCEPT !.threw = TRUE]
                 ELSE [st EXCEPT !.ringOpens = MapSet(@, tok.ring, atomIdx)])

\* parseInt of a run of digits.
RECURSIVE DigitsValue(_, _)
DigitsValue(ds, acc) ==
  IF Len(ds) = 0 THEN acc ELSE DigitsValue(Tail(ds), 10 * acc + DigitVal(ds[1]))

\* The longest prefix of s made of digits.
RECURSIVE LeadingDigits(_)
LeadingDigits(s) ==
  IF Len(s) > 0 /\ IsDigit(s[1]) THEN <<s[1]>> \o LeadingDigits(Tail(s)) ELSE <<>>

\* The hydrogens a bracket atom's text states: raw.match(/H([0-9]*)/), the
\* count after the first H, 1 when no digit follows it, 0 with no H.
ExplicitH(raw) ==
  LET at == indexOf(raw, "H", 0)
      ds == LeadingDigits(substring(raw, at + 1, Len(raw)))
  IN IF at = -1 THEN 0
     ELSE IF Len(ds) > 0 THEN DigitsValue(ds, 0) ELSE 1

\* The hydrogens atomCount adds for one atom of its list.
AtomH(atom) ==
  IF ~atom.bracket
  THEN implicitHydrogens(atom.element, atom.bondOrderSum, atom.aromatic)
  ELSE ExplicitH(atom.raw)

RECURSIVE SumSeq(_)
SumSeq(ns) == IF Len(ns) = 0 THEN 0 ELSE ns[1] + SumSeq(Tail(ns))

\* atomCount's atom list after both loops over the tokens, or threw.
CountLoops(tokens) ==
  CountPass2(tokens, 1,
    [atoms |-> CountPass1(tokens, 1,
                 [atoms |-> <<>>, atomStack |-> <<>>, prevAtomIdx |-> -1,
                  pendingBond |-> ""]).atoms,
     ringOpens |-> <<>>, atomIdx |-> -1, threw |-> FALSE])

CountAtoms(s) == CountLoops(tokenize(s))

\* atomCount's tally of the atom list r: a function from element symbols to
\* counts.
TallyAtoms(r) ==
  LET n == Len(r.atoms)
      heavy == {r.atoms[a].element : a \in 1..n}
      tally == [el \in heavy |-> Cardinality({a \in 1..n : r.atoms[a].element = el})]
      totalH == SumSeq([a \in 1..n |-> AtomH(r.atoms[a])])
      keys == IF totalH > 0 THEN heavy \cup {<<"H">>} ELSE heavy
  IN IF r.threw THEN [threw |-> TRUE, counts |-> <<>>]
     ELSE [threw |-> FALSE,
           counts |-> [el \in keys |->
                         (IF el \in heavy THEN tally[el] ELSE 0)
                         + (IF el = <<"H">> THEN totalH ELSE 0)]]

\* atomCount(smiles)
atomCount(s) == TallyAtoms(CountAtoms(s))

\* ------------------------------------------------------ molecularFormula

\* The order of Array.prototype.sort on strings: by UTF-16 code units.
RECURSIVE StrLess(_, _)
StrLess(a, b) ==
  IF Len(b) = 0 THEN FALSE
  ELSE IF Len(a) = 0 THEN TRUE
  ELSE IF CharCode(a[1]) # CharCode(b[1]) THEN CharCode(a[1]) < CharCode(b[1])
  ELSE StrLess(Tail(a), Tail(b))

\* keys.sort()
RECURSIVE Sorted(_)
Sorted(keys) ==
  IF keys = {} THEN <<>>
  ELSE LET least == CHOOSE k \in keys : \A j \in keys \ {k} : StrLess(k, j)
       IN <<least>> \o Sorted(keys \ {least})

\* The decimal digits of n > 0.
RECURSIVE Decimal(_)
Decimal(n) ==
  IF n < 10 THEN <<Digits[n + 1]>> ELSE Decimal(n \div 10) \o <<Digits[(n % 10) + 1]>>

\* el + (counts[el] > 1 ? counts[el] : '')
FormulaPart(counts, el) == el \o (IF counts[el] > 1 THEN Decimal(counts[el]) ELSE <<>>)

RECURSIVE JoinParts(_, _)
JoinParts(counts, els) ==
  IF Len(els) = 0 THEN <<>>
  ELSE FormulaPart(counts, els[1]) \o JoinParts(counts, Tail(els))

\* The elements in sorted order, carbon and hydrogen not put first.
FormulaOrderSortedOnly(counts) == Sorted(DOMAIN counts)

\* molecularFormula(smiles): the elements in the order the parts are pushed.
FormulaOrder(counts) ==
  LET keys == DOMAIN counts
      hasC == <<"C">> \in keys
      hasH == <<"H">> \in keys
      remaining == Sorted(keys \ {<<"C">>, <<"H">>})
  IN IF ~hasC /\ hasH THEN Sorted(keys)
     ELSE (IF hasC THEN <<<<"C">>>> \o (IF hasH THEN <<<<"H">>>> ELSE <<>>) ELSE <<>>)
          \o remaining

\* The body of molecularFormula once counts = atomCount(smiles) is known.
FormulaOf(c) ==
  IF c.threw THEN [threw |-> TRUE, formula |-> <<>>]
  ELSE [threw |-> FALSE, formula |-> JoinParts(c.counts, FormulaOrder(c.counts))]

\* molecularFormula(smiles)
molecularFormula(s) == FormulaOf(atomCount(s))

\* ------------------------------------------------------------ bondCount

\* prevAtom and the entries of atomStack and ringOpens: null, undefined (the
\* pop of an empty stack) or an atom {index, aromatic}.
NullAtom == [kind |-> "null", index |-> -1, aromatic |-> FALSE]

UndefinedAtom == [kind |-> "undefined", index |-> -1, aromatic |-> FALSE]

AtomRef(index, aromatic) == [kind |-> "atom", index |-> index, aromatic |-> aromatic]

Tally(r, which) == [r EXCEPT !.result[which] = @ + 1]

\* The tally a bond between consecutive atoms goes to; "throw" when
\* prevAtom.aromatic is read of undefined.
ChainBondClass(pendingBond, aromatic, prevAtom) ==
  CASE pendingBond = "=" -> "double"
    [] pendingBond = "#" -> "triple"
    [] pendingBond = ":" -> "aromatic"
    [] OTHER -> IF ~aromatic THEN "single"
                ELSE IF prevAtom.kind # "atom" THEN "throw"
                ELSE IF prevAtom.aromatic THEN "aromatic" ELSE "single"

\* The tally a ring-closure bond goes to; "throw" when openAtom.aromatic is
\* read of null or undefined.
RingBondClass(pendingBond, prevAtom, openAtom) ==
  CASE pendingBond = "=" -> "double"
    [] pendingBond = "#" -> "triple"
    [] pendingBond = ":" -> "aromatic"
    [] OTHER -> IF ~(prevAtom.kind = "atom" /\ prevAtom.aromatic) THEN "single"
                ELSE IF openAtom.kind # "atom" THEN "throw"
                ELSE IF openAtom.aromatic THEN "aromatic" ELSE "single"

\* bondCount's loop over the tokens.
RECURSIVE BondPass(_, _, _)
BondPass(tokens, k, st) ==
  IF k > Len(tokens) \/ st.threw THEN st
  ELSE LET tok == tokens[k]
           aromatic == TokAromatic(tok)
           chain == ChainBondClass(st.pendingBond, aromatic, st.prevAtom)
           openAtom == MapGet(st.ringOpens, tok.ring)
           ring == RingBondClass(st.pendingBond, st.prevAtom, openAtom)
           popped == IF Len(st.atomStack) = 0 THEN UndefinedAtom
                     ELSE st.atomStack[Len(st.atomStack)]
       IN BondPass(tokens, k + 1,
            CASE tok.type = "atom" ->
                   IF st.prevAtom.kind # "null" /\ chain = "throw"
                   THEN [st EXCEPT !.threw = TRUE]
                   ELSE [(IF st.prevAtom.kind # "null" THEN Tally(st, chain) ELSE st)
                           EXCEPT !.atomIdx = st.atomIdx + 1,
                                  !.pendingBond = "",
                                  !.prevAtom = AtomRef(st.atomIdx + 1, aromatic)]
              [] tok.type = "bond" ->
                   [st EXCEPT !.pendingBond = tok.value[1]]
              [] tok.type = "branch_open" ->
                   [st EXCEPT !.atomStack = Append(@, st.prevAtom)]
              [] tok.type = "branch_close" ->
                   [st EXCEPT !.prevAtom = popped, !.atomStack = StackPop(@)]
              [] tok.type = "ring" ->
                   IF MapHas(st.ringOpens, tok.ring)
                   THEN IF ring = "throw" THEN [st EXCEPT !.threw = TRUE]
                        ELSE [Tally(st, ring) EXCEPT !.ringOpens = MapDelete(@, tok.ring),
                                                     !.pendingBond = ""]
                   ELSE [st EXCEPT !.ringOpens = MapSet(@, tok.ring, st.prevAtom)])

\* return result, or the TypeError raised in the loop.
BondResult(st) == [threw |-> st.threw, result |-> st.result]

\* bondCount(smiles)
bondCount(s) ==
  BondResult(
    BondPass(tokenize(s), 1,
      [result |-> [single |-> 0, double |-> 0, triple |-> 0, aromatic |-> 0],
       prevAtom |-> NullAtom, pendingBond |-> "", atomStack |-> <<>>,
       ringOpens |-> <<>>, atomIdx |-> -1, threw |-> FALSE]))

\* ------------------------------------------------------ molecularWeight

\* adj[x] exists: x is an index of the array of length n.
IsIndex(x, n) == x \in 0..(n - 1)

\* buildAdjacency(parsed): adj[a] for atom a (from 0), the edges in the order
\* they are pushed; threw when adj[bond.from] or adj[bond.to] is undefined.
RECURSIVE AdjacencyOf(_, _, _)
AdjacencyOf(bondList, k, a) ==
  IF k = 0 THEN <<>>
  ELSE LET b == bondList[k]
       IN AdjacencyOf(bondList, k - 1, a)
          \o (IF b.from = a THEN <<[neighbor |-> b.to, order |-> b.order]>> ELSE <<>>)
          \o (IF b.to = a THEN <<[neighbor |-> b.from, order |-> b.order]>> ELSE <<>>)

buildAdjacency(parsed) ==
  LET n == Len(parsed.atoms)
      m == Len(parsed.bonds)
  IN IF \E k \in 1..m : ~IsIndex(parsed.bonds[k].from, n) \/ ~IsIndex(parsed.bonds[k].to, n)
     THEN [threw |-> TRUE, adj |-> <<>>]
     ELSE [threw |-> FALSE,
           adj |-> [a \in 0..(n - 1) |-> AdjacencyOf(parsed.bonds, m, a)]]

\* molecularWeight's loop over the atoms of parsed, built its adjacency.
WeightOf(parsed, built) ==
  LET n == Len(parsed.atoms)
      bondOrderSum(a) == SumSeq([e \in 1..Len(built.adj[a]) |-> built.adj[a][e].order])
      atomWeight(a) ==
        ATOMIC_WEIGHTS(parsed.atoms[a + 1].symbol)
        + mwImplicitH(parsed.atoms[a + 1].symbol, parsed.atoms[a + 1].aromatic,
                      bondOrderSum(a)) * ATOMIC_WEIGHTS(<<"H">>)
  IN IF built.threw THEN [threw |-> TRUE, mw |-> 0]
     ELSE [threw |-> FALSE, mw |-> SumSeq([a \in 1..n |-> atomWeight(a - 1)])]

WeightOfParsed(parsed) == WeightOf(parsed, buildAdjacency(parsed))

\* molecularWeight(smiles), in thousandths: Math.round(mw * 1000).
molecularWeight(s) == WeightOfParsed(parseSMILES(s))

\* ------------------------------------------------------- drug-likeness

\* bondSum[i] and degree[i] of _atomDetails for the atom i (from 0): an
\* assignment through an index that is no atom's leaves every atom's entry
\* as it was.
BondSumOf(bondList, a) ==
  SumSeq([k \in 1..Len(bondList) |->
            (IF bondList[k].from = a THEN bondList[k].order ELSE 0)
            + (IF bondList[k].to = a THEN bondList[k].order ELSE 0)])

DegreeOf(bondList, a) ==
  SumSeq([k \in 1..Len(bondList) |->
            (IF bondList[k].from = a THEN 1 ELSE 0)
            + (IF bondList[k].to = a THEN 1 ELSE 0)])

\* The atoms _atomDetails returns for the graph parsed.
DetailsOf(parsed) ==
  [a \in 1..Len(parsed.atoms) |->
     [symbol |-> parsed.atoms[a].symbol,
      aromatic |-> parsed.atoms[a].aromatic,
      bondOrderSum |-> BondSumOf(parsed.bonds, a - 1),
      degree |-> DegreeOf(parsed.bonds, a - 1),
      implicitH |-> _implicitH(parsed.atoms[a].symbol, parsed.atoms[a].aromatic,
                               BondSumOf(parsed.bonds, a - 1))]]

\* _atomDetails(smiles).atoms
_atomDetails(s) == DetailsOf(parseSMILES(s))

\* The filter of countHBD over the atoms.
DonorsIn(details) ==
  Cardinality({a \in 1..Len(details) :
                 details[a].symbol \in {<<"O">>, <<"N">>} /\ details[a].implicitH > 0})

\* countHBD(smiles)
countHBD(s) == DonorsIn(_atomDetails(s))

\* The filter of countHBA over the atoms of the graph parsed.
AcceptorsIn(parsed) ==
  Cardinality({a \in 1..Len(parsed.atoms) :
                 parsed.atoms[a].symbol = <<"O">> \/ parsed.atoms[a].symbol = <<"N">>})

\* countHBA(smiles)
countHBA(s) == AcceptorsIn(parseSMILES(s))

\* ------------------------------------------------------------------ TPSA

\* A loop body whose last branch is not restricted to phosphorus.
ContributionAnyOther(symbol, aromatic, deg, h) ==
  IF symbol = <<"O">>
  THEN IF h > 0 THEN 2023 ELSE IF deg <= 1 THEN 1707 ELSE IF aromatic THEN 1314 ELSE 923
  ELSE IF symbol = <<"N">>
  THEN IF aromatic /\ h > 0 THEN 1579 ELSE IF aromatic THEN 1289
       ELSE IF h >= 2 THEN 2602 ELSE IF h = 1 THEN 1707 ELSE 324
  ELSE IF symbol = <<"S">>
  THEN IF h > 0 THEN 3880 ELSE 2530
  ELSE 4074

\* What one iteration of estimateTPSA's loop adds to tpsa for an atom with
\* the symbol, aromatic flag, degree deg and implicit hydrogens h, in
\* hundredths of a square angstrom.
Contribution(symbol, aromatic, deg, h) ==
  IF symbol = <<"O">>
  THEN IF h > 0 THEN 2023
       ELSE IF deg <= 1 THEN 1707
       ELSE IF aromatic THEN 1314
       ELSE 923
  ELSE IF symbol = <<"N">>
  THEN IF aromatic /\ h > 0 THEN 1579
       ELSE IF aromatic THEN 1289
       ELSE IF h >= 2 THEN 2602
       ELSE IF h = 1 THEN 1707
       ELSE 324
  ELSE IF symbol = <<"S">>
  THEN IF h > 0 THEN 3880 ELSE 2530
  ELSE IF symbol = <<"P">>
  THEN 4074
  ELSE 0

\* tpsa after the loop over the atoms, in hundredths: bondSum, degree and h
\* are computed as in _atomDetails.
TpsaOf(details) ==
  SumSeq([a \in 1..Len(details) |->
            Contribution(details[a].symbol, details[a].aromatic, details[a].degree,
                         details[a].implicitH)])

\* Math.round(tpsa * 10) / 10, in tenths, for tpsa of h hundredths.  tpsa is
\* a binary floating-point sum: it differs from the decimal sum by a
\* representation error far below one hundredth, on either side, so a sum
\* whose hundredths digit is 5 rounds up or down and any other sum rounds to
\* the nearest tenth.
RoundToTenth(h) ==
  IF h % 10 = 5 THEN {h \div 10, h \div 10 + 1} ELSE {(h + 5) \div 10}

\* estimateTPSA(smiles): the values the call can return, in tenths.
estimateTPSA(s) == RoundToTenth(TpsaOf(_atomDetails(s)))

\* ------------------------------------------------------ rotatable bonds

\* The adjacency list of _findRingBonds: adj[u] for atom u (from 0), entries
\* {to, idx} in the order they are pushed, idx the bond's index from 0.
RECURSIVE RingAdjacencyOf(_, _, _)
RingAdjacencyOf(bondList, k, u) ==
  IF k = 0 THEN <<>>
  ELSE LET b == bondList[k]
       IN RingAdjacencyOf(bondList, k - 1, u)
          \o (IF b.from = u THEN <<[to |-> b.to, idx |-> k - 1]>> ELSE <<>>)
          \o (IF b.to = u THEN <<[to |-> b.from, idx |-> k - 1]>> ELSE <<>>)

\* dfs(u, parentEdgeIdx) of _findRingBonds, on the state
\* st = [visited, disc, low, timer, bridges]; dfsLoop is its for loop from
\* the k-th entry of adj[u] on.
RECURSIVE dfs(_, _, _, _)
RECURSIVE dfsLoop(_, _, _, _, _)
\* dfs with a timer that does not advance.
dfsTimerStuck(adj, st, u, parentEdgeIdx) ==
  dfsLoop(adj,
          [st EXCEPT !.visited[u] = TRUE, !.disc[u] = st.timer, !.low[u] = st.timer],
          u, parentEdgeIdx, 1)

dfs(adj, st, u, parentEdgeIdx) ==
  dfsLoop(adj,
          [st EXCEPT !.visited[u] = TRUE, !.disc[u] = st.timer, !.low[u] = st.timer,
                     !.timer = @ + 1],
          u, parentEdgeIdx, 1)

\* After dfs(v, idx) returned s1: low[u] = Math.min(low[u], low[v]) and
\* if (low[v] > disc[u]) bridges.add(idx).
dfsChildDone(s1, u, v, idx) ==
  [s1 EXCEPT !.low[u] = Min(@, s1.low[v]),
             !.bridges = IF s1.low[v] > s1.disc[u] THEN @ \cup {idx} ELSE @]

dfsLoop(adj, st, u, parentEdgeIdx, k) ==
  IF k > Len(adj[u]) THEN st
  ELSE IF adj[u][k].idx = parentEdgeIdx THEN dfsLoop(adj, st, u, parentEdgeIdx, k + 1)
  ELSE IF ~st.visited[adj[u][k].to]
    THEN dfsLoop(adj,
                 dfsChildDone(dfs(adj, st, adj[u][k].to, adj[u][k].idx),
                              u, adj[u][k].to, adj[u][k].idx),
                 u, parentEdgeIdx, k + 1)
  ELSE dfsLoop(adj, [st EXCEPT !.low[u] = Min(@, st.disc[adj[u][k].to])],
               u, parentEdgeIdx, k + 1)

\* for (let i = 0; i < n; i++) if (!visited[i]) dfs(i, -1)
RECURSIVE dfsAll(_, _, _, _)
dfsAll(adj, st, u, n) ==
  IF u >= n THEN st
  ELSE dfsAll(adj, IF st.visited[u] THEN st ELSE dfs(adj, st, u, -1), u + 1, n)

\* _findRingBonds(bonds, n): the indices (from 0) of the bonds that are not
\* bridges; threw when adj[bonds[i].from] or adj[bonds[i].to] is undefined.
_findRingBonds(bondList, n) ==
  LET m == Len(bondList)
      adj == [u \in 0..(n - 1) |-> RingAdjacencyOf(bondList, m, u)]
      st == dfsAll(adj,
                   [visited |-> [u \in 0..(n - 1) |-> FALSE],
                    disc |-> [u \in 0..(n - 1) |-> -1],
                    low |-> [u \in 0..(n - 1) |-> -1],
                    timer |-> 0, bridges |-> {}],
                   0, n)
  IN IF \E k \in 1..m : ~IsIndex(bondList[k].from, n) \/ ~IsIndex(bondList[k].to, n)
     THEN [threw |-> TRUE, ringBonds |-> {}]
     ELSE [threw |-> FALSE, ringBonds |-> (0..(m - 1)) \ st.bridges]

\* countRotatableBonds's loop over bondList, ring what _findRingBonds gave.
RotatableIn(bondList, ring) ==
  LET isRotatable(k) ==
        /\ bondList[k + 1].order = 1
        /\ k \notin ring.ringBonds
        /\ ~(DegreeOf(bondList, bondList[k + 1].from) <= 1
             \/ DegreeOf(bondList, bondList[k + 1].to) <= 1)
  IN IF ring.threw THEN [threw |-> TRUE, count |-> 0]
     ELSE [threw |-> FALSE,
           count |-> Cardinality({k \in 0..(Len(bondList) - 1) : isRotatable(k)})]

RotatableOf(parsed) ==
  RotatableIn(parsed.bonds, _findRingBonds(parsed.bonds, Len(parsed.atoms)))

\* countRotatableBonds(smiles)
countRotatableBonds(s) == RotatableOf(parseSMILES(s))

\* ------------------------------------------------------------ hashString

\* A 32-bit unsigned integer, held as its two 16-bit halves.
Word(hi, lo) == [hi |-> hi, lo |-> lo]

\* x ^ y for 0 <= x, y < 2^16
RECURSIVE BitXor(_, _)
BitXor(x, y) ==
  IF x = 0 THEN y
  ELSE IF y = 0 THEN x
  ELSE 2 * BitXor(x \div 2, y \div 2) + ((x + y) % 2)

\* 0x811c9dc5
FNV_OFFSET_BASIS == Word(33052, 40389)

\* Math.imul(h, 0x01000193): the low 32 bits of the product, the prime being
\* 0x0100 * 2^16 + 0x0193.
imul(h) ==
  Word((h.hi * 403 + h.lo * 256 + (h.lo * 403) \div 65536) % 65536,
       (h.lo * 403) % 65536)

\* hashString's loop from the k-th character on; the code units are below
\* 2^16, so h ^= str.charCodeAt(i) changes the low half only.  (h.hi is never
\* negative: testing it evaluates h at every iteration, which keeps the
\* evaluation of a long string shallow.)
RECURSIVE HashRun(_, _, _)
HashRun(str, k, h) ==
  IF h.hi >= 0 /\ k <= Len(str)
  THEN HashRun(str, k + 1, imul(Word(h.hi, BitXor(h.lo, CharCode(str[k])))))
  ELSE h

\* hashString(str): h >>> 0 reads the 32 bits as unsigned.
hashString(str) == HashRun(str, 1, FNV_OFFSET_BASIS)

\* id % nBits for nBits > 0.
WordMod(h, n) == ((h.hi % n) * (65536 % n) + h.lo) % n

\* identifiers[e.neighbor] + e.order * 7: a Number, not wrapped to 32 bits,
\* so the high half may reach 2^16.
WordPlus(h, n) == Word(h.hi + (h.lo + n) \div 65536, (h.lo + n) % 65536)

\* x - y < 0
WordLess(x, y) == x.hi < y.hi \/ (x.hi = y.hi /\ x.lo < y.lo)

\* The four decimal digits of n < 10000.
FourDigits(n) ==
  <<Digits[(n \div 1000) + 1], Digits[((n \div 100) % 10) + 1],
    Digits[((n \div 10) % 10) + 1], Digits[(n % 10) + 1]>>

\* The number in a template literal: its decimal digits, computed in base
\* 10000 (2^16 = 6 * 10000 + 5536).
WordText(h) ==
  IF h.hi * 6 + (h.hi * 5536 + h.lo) \div 10000 = 0
  THEN Decimal((h.hi * 5536 + h.lo) % 10000)
  ELSE Decimal(h.hi * 6 + (h.hi * 5536 + h.lo) \div 10000)
       \o FourDigits((h.hi * 5536 + h.lo) % 10000)

\* ----------------------------------------------------- morganFingerprint

\* hashString(`${atom.symbol}:${deg}:${atom.aromatic ? 1 : 0}`)
AtomInvariant(atom, deg) ==
  hashString(atom.symbol \o <<":">> \o Decimal(deg) \o <<":">>
             \o (IF atom.aromatic THEN <<"1">> ELSE <<"0">>))

\* parsed.atoms.map((atom, i) => ...): the identifiers of radius 0.
InitialIdentifiers(parsed, adj) ==
  [a \in 1..Len(parsed.atoms) |-> AtomInvariant(parsed.atoms[a], Len(adj[a - 1]))]

\* .sort((x, y) => x - y): the numbers in ascending order.
RECURSIVE InsertWord(_, _)
InsertWord(sorted, x) ==
  IF Len(sorted) = 0 THEN <<x>>
  ELSE IF WordLess(x, sorted[1]) THEN <<x>> \o sorted
  ELSE <<sorted[1]>> \o InsertWord(Tail(sorted), x)

RECURSIVE SortWords(_)
SortWords(xs) ==
  IF Len(xs) = 0 THEN <<>> ELSE InsertWord(SortWords(Tail(xs)), xs[1])

\* adj[a].map(e => identifiers[e.neighbor] + e.order * 7).sort(...)
NeighborHashes(edges, identifiers) ==
  SortWords([e \in 1..Len(edges) |->
               WordPlus(identifiers[edges[e].neighbor + 1], edges[e].order * 7)])

\* neighborHashes.join(',')
RECURSIVE JoinWords(_)
JoinWords(xs) ==
  IF Len(xs) = 0 THEN <<>>
  ELSE IF Len(xs) = 1 THEN WordText(xs[1])
  ELSE WordText(xs[1]) \o <<",">> \o JoinWords(Tail(xs))

\* nextIds of the iteration r of the loop over the radii.
NextIds(adj, identifiers, r) ==
  [a \in 1..Len(identifiers) |->
     hashString(WordText(identifiers[a]) \o <<"|">>
                \o JoinWords(NeighborHashes(adj[a - 1], identifiers))
                \o <<"|", "r">> \o Decimal(r))]

\* fp after fp[id % nBits] = 1 for every id of ids; fp[b + 1] is the entry b.
\* With nBits = 0 the index is NaN and the assignment changes no entry.
SetBits(fp, ids, nBits) ==
  [b \in 1..Len(fp) |->
     IF \E a \in 1..Len(ids) : WordMod(ids[a], nBits) = b - 1 THEN 1 ELSE fp[b]]

\* new Uint8Array(nBits)
Uint8Array(nBits) == [b \in 1..nBits |-> 0]

\* The loop over the radii from the iteration r on.
RECURSIVE MorganLevels(_, _, _, _, _, _)
RECURSIVE MorganLevel(_, _, _, _, _, _)
MorganLevels(adj, identifiers, fp, r, radius, nBits) ==
  IF r > radius THEN fp
  ELSE MorganLevel(adj, NextIds(adj, identifiers, r), fp, r, radius, nBits)

\* The rest of the iteration r once nextIds is computed: its bits are set
\* and identifiers = nextIds.
MorganLevel(adj, nextIds, fp, r, radius, nBits) ==
  MorganLevels(adj, nextIds, SetBits(fp, nextIds, nBits), r + 1, radius, nBits)

\* morganFingerprint once parseSMILES returned parsed and buildAdjacency
\* returned built.
FingerprintOf(parsed, built, radius, nBits) ==
  IF built.threw THEN [threw |-> TRUE, fp |-> <<>>]
  ELSE [threw |-> FALSE,
        fp |-> MorganLevels(built.adj, InitialIdentifiers(parsed, built.adj),
                            SetBits(Uint8Array(nBits),
                                    InitialIdentifiers(parsed, built.adj), nBits),
                            1, radius, nBits)]

FingerprintOfParsed(parsed, radius, nBits) ==
  FingerprintOf(parsed, buildAdjacency(parsed), radius, nBits)

\* morganFingerprint(smiles, { radius, nBits }), or threw: parseSMILES or
\* buildAdjacency raised a TypeError.
morganFingerprint(s, radius, nBits) ==
  IF ParseRun(s, ParseInit).threw THEN [threw |-> TRUE, fp |-> <<>>]
  ELSE FingerprintOfParsed(parseSMILES(s), radius, nBits)

\* ---------------------------------------------------- tanimotoSimilarity

\* fp[i] ? 1 : 0
Truthy(x) == IF x = 0 THEN 0 ELSE 1

\* a & b and a | b for a, b in {0, 1}
BitAnd(a, b) == a * b

BitOr(a, b) == IF a + b > 0 THEN 1 ELSE 0

RECURSIVE Gcd(_, _)
Gcd(a, b) == IF b = 0 THEN a ELSE Gcd(b, a % b)

\* The quotient n / d of two counts, d > 0, as the fraction in lowest terms:
\* two quotients of counts are the same Number exactly when they are the
\* same fraction.
Quotient(n, d) == [num |-> n \div Gcd(n, d), den |-> d \div Gcd(n, d)]

\* An early return of the constant 1 for equal counts.
TanimotoOfCountsEqual(andCount, orCount) ==
  IF andCount = orCount THEN Quotient(1, 1) ELSE Quotient(andCount, orCount)

\* return orCount === 0 ? 0 : andCount / orCount
TanimotoOfCounts(andCount, orCount) ==
  IF orCount = 0 THEN Quotient(0, 1) ELSE Quotient(andCount, orCount)

\* andCount and orCount after the loop over i < len: a & b is 1 at the
\* positions where both entries are truthy, a | b where one of them is.
AndCountOf(v1, v2) ==
  Cardinality({p \in 1..Min(Len(v1), Len(v2)) :
                 BitAnd(Truthy(v1[p]), Truthy(v2[p])) = 1})

OrCountOf(v1, v2) ==
  Cardinality({p \in 1..Min(Len(v1), Len(v2)) :
                 BitOr(Truthy(v1[p]), Truthy(v2[p])) = 1})

\* tanimotoSimilarity(fp1, fp2)
tanimotoSimilarity(v1, v2) == TanimotoOfCounts(AndCountOf(v1, v2), OrCountOf(v1, v2))

\* ------------------------------------------------------------- knnSearch

\* b.similarity - a.similarity > 0: a sorts after b.
SimLess(x, y) == x.num * y.den < y.num * x.den

\* database.map(entry => ({ id, similarity }))
ScoreAll(queryFp, db) ==
  [e \in 1..Len(db) |->
     [id |-> db[e].id, similarity |-> tanimotoSimilarity(queryFp, db[e].fingerprint)]]

\* scored.sort((a, b) => b.similarity - a.similarity): the sort is stable,
\* so an entry goes after the entries before it that are not less similar.
RECURSIVE InsertScored(_, _)
InsertScored(sorted, x) ==
  IF Len(sorted) = 0 THEN <<x>>
  ELSE IF SimLess(sorted[1].similarity, x.similarity) THEN <<x>> \o sorted
  ELSE <<sorted[1]>> \o InsertScored(Tail(sorted), x)

RECURSIVE SortScored(_, _)
SortScored(scored, n) ==
  IF n = 0 THEN <<>> ELSE InsertScored(SortScored(scored, n - 1), scored[n])

\* A slice that keeps the entry at index k too.
SliceThrough(scored, k) == SubSeq(scored, 1, Min(k + 1, Len(scored)))

\* scored.slice(0, k): a negative k counts from the end.
SliceTo(scored, k) ==
  SubSeq(scored, 1, IF k < 0 THEN Max(Len(scored) + k, 0) ELSE Min(k, Len(scored)))

\* knnSearch(queryFp, database, k)
knnSearch(queryFp, db, k) ==
  SliceTo(SortScored(ScoreAll(queryFp, db), Len(db)), k)

\* ------------------------------------------------------- runKineticsODE

\* A JavaScript number: the ratio num / den of two integers (den > 0), NaN,
\* Infinity or -Infinity.
Fin(n, d) == [kind |-> "finite", num |-> n, den |-> d]

NaNf == [kind |-> "nan", num |-> 0, den |-> 1]

PosInf == [kind |-> "inf", num |-> 1, den |-> 1]

NegInf == [kind |-> "inf", num |-> -1, den |-> 1]

Whole(n) == Fin(n, 1)

IsFinite(a) == a.kind = "finite"

IsNaN(a) == a.kind = "nan"

\* a > 0, a < 0
Positive(a) == a.kind # "nan" /\ a.num > 0

Negative(a) == a.kind # "nan" /\ a.num < 0

\* a / b
Div(a, b) ==
  IF IsNaN(a) \/ IsNaN(b) THEN NaNf
  ELSE IF ~IsFinite(a)
    THEN IF ~IsFinite(b) THEN NaNf
         ELSE IF Negative(a) = Negative(b) THEN PosInf ELSE NegInf
  ELSE IF ~IsFinite(b) THEN Whole(0)
  ELSE IF b.num = 0
    THEN IF a.num = 0 THEN NaNf ELSE IF a.num > 0 THEN PosInf ELSE NegInf
  ELSE IF b.num > 0 THEN Fin(a.num * b.den, a.den * b.num)
  ELSE Fin(-(a.num * b.den), a.den * (-b.num))

\* a * b
Mul(a, b) ==
  IF IsNaN(a) \/ IsNaN(b) THEN NaNf
  ELSE IF IsFinite(a) /\ IsFinite(b) THEN Fin(a.num * b.num, a.den * b.den)
  ELSE IF a.num = 0 \/ b.num = 0 THEN NaNf
  ELSE IF Negative(a) = Negative(b) THEN PosInf ELSE NegInf

\* Math.ceil(a)
Ceil(a) == IF IsFinite(a) THEN Whole(-((-a.num) \div a.den)) ELSE a

\* Math.max(1, a)
MaxOne(a) ==
  IF IsNaN(a) THEN NaNf
  ELSE IF IsFinite(a) THEN (IF a.num > a.den THEN a ELSE Whole(1))
  ELSE IF Positive(a) THEN PosInf ELSE Whole(1)

\* n <= a and n < a, for a loop counter n
CountLessEq(n, a) ==
  IF IsNaN(a) THEN FALSE
  ELSE IF IsFinite(a) THEN n * a.den <= a.num ELSE Positive(a)

CountLess(n, a) ==
  IF IsNaN(a) THEN FALSE
  ELSE IF IsFinite(a) THEN n * a.den < a.num ELSE Positive(a)

\* The rates A * Math.exp(-Ea / (R * T)) takes at the temperatures above
\* absolute zero, per second: none (the exponential underflows) up to MaxRate.
MaxRate == 1

Rates == 0..MaxRate

\* arrheniusRate(Ea, A, T_celsius) for a temperature in degrees: 0 at or
\* below absolute zero (T <= 0 with T = T_celsius + 273.15), NaN for NaN, and
\* otherwise the rate the exponential gives, one of Rates.
arrheniusRate(T_celsius) ==
  IF IsNaN(T_celsius) THEN {NaNf}
  ELSE IF 100 * T_celsius.num + 27315 * T_celsius.den <= 0 THEN {Whole(0)}
  ELSE {Whole(k) : k \in Rates}

\* catalystFactor = 1 + 0.8 * catalystDrops / (1 + 0.15 * catalystDrops),
\* that is (100 + 95 * catalystDrops) / (100 + 15 * catalystDrops).
catalystFactor(catalystDrops) ==
  Fin(100 + 95 * catalystDrops, 100 + 15 * catalystDrops)

\* maxStep = 0.5 / (kEff * (equiv + 1) + 1e-30) and dt / maxStep: with a
\* rate of 0 maxStep is 5e29 and the quotient is dt * 2e-30, whose ceiling
\* is 1 for a positive dt and 0 or less otherwise; with a positive rate the
\* 1e-30 is lost in the sum.
StepRatio(dt, kEff, equiv) ==
  IF IsNaN(dt) \/ IsNaN(kEff) THEN NaNf
  ELSE IF ~IsFinite(dt) THEN dt
  ELSE IF kEff.num = 0 THEN (IF dt.num > 0 THEN Fin(1, 2) ELSE Whole(0))
  ELSE Mul(dt, Mul(Whole(2 * (equiv + 1)), kEff))

\* nSub = Math.max(1, Math.ceil(dt / maxStep))
SubSteps(dt, kEff, equiv) == MaxOne(Ceil(StepRatio(dt, kEff, equiv)))

\* What runKineticsODE pushes for the integration step i: the time
\* Math.round(i * dt * 1e6) / 1e6 and the conversion.
Sample(stepNo, dt, conversion) ==
  [time |-> Mul(Whole(stepNo), dt), conversion |-> conversion]

\* x after a sub-step: Math.min(1, Math.max(0, ...)), a number between 0
\* and 1 or NaN; the model does not keep which.
Clamped == [kind |-> "clamped", num |-> 0, den |-> 1]

\* steps = 200 of the parameter list
DEFAULT_STEPS == 200

DEFAULT_CATALYST_DROPS == 3

DEFAULT_EQUIV == 1

\* ------------------------------------------------------------ the inputs

\* The longest notation drawn exhaustively from an alphabet.
MaxLen == 4

\* Punctuation of the notation: branches, bracket atoms, ring labels.
SyntaxAlphabet == {"C", "(", ")", "[", "]", "1", "%"}

\* Atoms, bond symbols, a ring label, a branch.
ChemAlphabet == {"C", "c", "O", "=", "1", "(", ")"}

StringsOver(alphabet) == UNION {[1..n -> alphabet] : n \in 0..MaxLen}

ethanol == <<"C", "C", "O">>

benzene == <<"c", "1", "c", "c", "c", "c", "c", "1">>

butane == <<"C", "C", "C", "C">>

aspirin ==
  <<"C", "C", "(", "=", "O", ")", "O", "c", "1", "c", "c", "c", "c", "c", "1",
    "C", "(", "=", "O", ")", "O">>

\* A ring label paired through the two-character form.
percentRing == <<"C", "%", "1", "C", "1">>

\* Two-letter atoms, and a formula with carbon and two other elements.
bromochloromethane == <<"B", "r", "C", "C", "l">>

hydrogenChloride == <<"C", "l">>

\* Stereo marks, a fragment separator, a triple bond and a charge.
stereoSalt ==
  <<"C", "/", "C", "=", "C", "\\", "C", "#", "N", ".", "[", "N", "H", "4", "+", "]">>

\* An unknown element, an unmatched ')', an unrecognised character and an
\* unclosed '['.
malformed == <<"X", ")", "@", "[", "Z">>

\* A ring closed with a written bond order.
cyclopropene == <<"C", "1", "C", "C", "=", "1">>

\* A ring label before the first atom.
ringFirst == <<"1", "C", "1">>

\* Bracket atoms with and without a hydrogen count.
hydroxide == <<"[", "O", "H", "-", "]">>

bracketOxygen == <<"[", "O", "]">>

\* An explicit single bond between aromatic atoms; a bracketed aromatic atom.
biaryl == <<"c", "-", "c">>

pyrrole == <<"c", "1", "c", "c", "[", "n", "H", "]", "c", "1">>

\* Over-bonded atoms: the bond orders exceed the valence.
overBonded == <<"O", "#", "c", "#", "S">>

water == <<"O">>

methane == <<"C">>

ethene == <<"C", "=", "C">>

\* Two molecules in one notation.
twoMethanes == <<"C", ".", "C">>

\* A branch followed by an atom of the main chain.
aceticAcid == <<"C", "C", "(", "=", "O", ")", "O">>

Examples ==
  {ethanol, benzene, butane, aspirin, percentRing, bromochloromethane,
   hydrogenChloride, stereoSalt, malformed, cyclopropene, ringFirst, hydroxide,
   bracketOxygen, biaryl, pyrrole, overBonded, water, methane, ethene,
   aceticAcid, twoMethanes}

Inputs == StringsOver(SyntaxAlphabet) \cup StringsOver(ChemAlphabet) \cup Examples

\* ------------------------------------------------------ the API router

MAX_SMILES_LENGTH == 1000

MAX_SIM_STEPS == 10000

\* A field of req.query or req.body: absent, a string (its characters in
\* text), a number (num) or an array (items).
Absent == [kind |-> "undefined", text |-> <<>>, num |-> NaNf, items |-> <<>>]

Text(s) == [kind |-> "string", text |-> s, num |-> NaNf, items |-> <<>>]

Numeric(a) == [kind |-> "number", text |-> <<>>, num |-> a, items |-> <<>>]

List(v) == [kind |-> "array", text |-> <<>>, num |-> NaNf, items |-> v]

\* !v
Falsy(v) ==
  \/ v.kind = "undefined"
  \/ v.kind = "string" /\ v.text = <<>>
  \/ v.kind = "number" /\ (IsNaN(v.num) \/ v.num.num = 0)

\* v == null
IsNullish(v) == v.kind = "undefined"

\* Number(v) of a field: the number itself, NaN for undefined and for the
\* strings requests carry, none of which is a numeral.
Number(v) == IF v.kind = "number" THEN v.num ELSE NaNf

\* a > n for a whole n
Exceeds(a, n) ==
  IF IsNaN(a) THEN FALSE
  ELSE IF IsFinite(a) THEN a.num > n * a.den ELSE Positive(a)

\* validateSmiles(smiles): the error message, or "null" for null.
validateSmiles(v) ==
  IF Falsy(v) THEN "smiles query parameter is required"
  ELSE IF Len(v.text) > MAX_SMILES_LENGTH
    THEN "smiles exceeds maximum length of 1000 characters"
  ELSE "null"

\* Whether a core function throws on the notation s: what the function
\* does on a notation of up to MaxLen characters; on a longer one the model
\* does not run the function and allows both.
ThrowsOn(fn, s) ==
  IF Len(s) > MaxLen THEN BOOLEAN
  ELSE CASE fn = "molecularWeight" -> {molecularWeight(s).threw}
         [] fn = "molecularFormula" -> {molecularFormula(s).threw}
         [] fn = "atomCount" -> {atomCount(s).threw}
         [] fn = "bondCount" -> {bondCount(s).threw}
         [] fn = "morganFingerprint" -> {morganFingerprint(s, 2, 128).threw}

\* A call of a core function, and whether it threw.
Call(fn, threw) == [fn |-> fn, threw |-> threw]

\* Calls made one after the other inside try { }: the runs that end at the
\* first call that throws.
RECURSIVE CallRuns(_)
CallRuns(calls) ==
  IF calls = <<>> THEN {<<>>}
  ELSE LET fn == calls[1][1]
           s == calls[1][2]
       IN {<<Call(fn, TRUE)>> : t \in ThrowsOn(fn, s) \cap {TRUE}}
          \cup {<<Call(fn, FALSE)>> \o rest :
                  t \in ThrowsOn(fn, s) \cap {FALSE}, rest \in CallRuns(Tail(calls))}

\* catch (err) { res.status(400) } after a call threw, res.json otherwise.
StatusAfter(run) ==
  IF run # <<>> /\ run[Len(run)].threw THEN 400 ELSE 200

\* The path of the URL as its segments; the router is mounted at /api.
MOUNT == "api"

\* router.get and router.post: the routes registered, by method and path.
Routes ==
  {<<"GET", <<"health">>>>,
   <<"GET", <<"molecule", "properties">>>>,
   <<"GET", <<"molecule", "fingerprint">>>>,
   <<"GET", <<"molecule", "similarity">>>>,
   <<"POST", <<"molecule", "risk">>>>,
   <<"POST", <<"simulate", "esterification">>>>,
   <<"POST", <<"simulate", "kinetics">>>>,
   <<"POST", <<"reaction", "parse">>>>,
   <<"GET", <<"pubchem", "compound">>>>,
   <<"GET", <<"pubchem", "autocomplete">>>>,
   <<"POST", <<"chem-assistant">>>>}

\* The request is for the route registered with the method and the path.
Routed(req, method, path) ==
  /\ <<method, path>> \in Routes
  /\ req.method = method
  /\ req.path # <<>> /\ Head(req.path) = MOUNT /\ Tail(req.path) = path

\* Whether runKineticsODE returns for the parameters and the rate k: it does
\* not when the body of its outer loop runs and nSub is Infinity.
KineticsReturns(p, k) ==
  ~ /\ CountLessEq(0, p.steps)
    /\ SubSteps(Div(p.totalTime, p.steps),
                Mul(k, catalystFactor(DEFAULT_CATALYST_DROPS)), DEFAULT_EQUIV) = PosInf

\* What a PubChem request ends in: the result, or an error with or without
\* a statusCode (err.statusCode || 400).
PubChemStatuses == {200, 400, 404, 503}

\* ---------------------------------------------------- the PubChem cache

\* DEFAULT_TTL = 5 * 60 * 1000, in milliseconds
DEFAULT_TTL == 300000

\* The capacity of the cache. It is 1000 in pubchem.js, which uses it in
\* cache.size >= MAX_CACHE_SIZE alone; the model fills a cache of
\* MAX_CACHE_SIZE entries from an empty one.
MAX_CACHE_SIZE == 2

\* The cache is a Map, kept like ringOpenings as its entries in insertion
\* order: MapSet replaces the value of a key the map has where it is, and
\* appends a new key.

\* Date.now() - entry.ts > entry.ttl
Expired(entry, clock) == clock - entry.ts > entry.ttl

\* What cacheGet returns: a miss (undefined) for a key the map has not, a
\* miss for an entry that has expired, or the entry's value; with the age
\* and the ttl of the entry it looked at.
Miss == [hit |-> FALSE, stale |-> FALSE, value |-> "", age |-> 0, ttl |-> 0]

Stale(entry, clock) ==
  [hit |-> FALSE, stale |-> TRUE, value |-> "", age |-> clock - entry.ts,
   ttl |-> entry.ttl]

Hit(entry, clock) ==
  [hit |-> TRUE, stale |-> FALSE, value |-> entry.value, age |-> clock - entry.ts,
   ttl |-> entry.ttl]

\* cacheGet(key) at the time clock: the map it leaves and what it returns.
cacheGet(map, key, clock) ==
  IF ~MapHas(map, key) THEN [cache |-> map, got |-> Miss]
  ELSE IF Expired(MapGet(map, key), clock)
    THEN [cache |-> MapDelete(map, key), got |-> Stale(MapGet(map, key), clock)]
  ELSE [cache |-> MapSet(MapDelete(map, key), key, MapGet(map, key)),
        got |-> Hit(MapGet(map, key), clock)]

\* cache.size >= MAX_CACHE_SIZE, off by one
IsFullLate(size) == size > MAX_CACHE_SIZE

\* cache.size >= MAX_CACHE_SIZE
IsFull(size) == size >= MAX_CACHE_SIZE

\* cacheSet(key, value, ttl) at the time clock: the map it leaves.
cacheSet(map, key, value, ttl, clock) ==
  MapSet(IF ~MapHas(map, key) /\ IsFull(Len(map)) /\ map # <<>>
           THEN MapDelete(map, map[1].key) ELSE map,
         key, [value |-> value, ts |-> clock, ttl |-> ttl])

\* The keys in the order of their most recent use, after one more use of
\* key, kept for the keys of the map only.
Used(order, key, map) ==
  SelectSeq(SelectSeq(order, LAMBDA q : q # key) \o <<key>>,
            LAMBDA q : MapHas(map, q))

\* --------------------------------------------------- green-chemistry score

\* The ratio a in lowest terms
Lowest(a) ==
  IF IsFinite(a) /\ a.num # 0
    THEN Fin(a.num \div Gcd(IF a.num < 0 THEN -a.num ELSE a.num, a.den),
             a.den \div Gcd(IF a.num < 0 THEN -a.num ELSE a.num, a.den))
  ELSE IF IsFinite(a) THEN Whole(0) ELSE a

\* a + b
Add(a, b) ==
  IF IsNaN(a) \/ IsNaN(b) THEN NaNf
  ELSE IF IsFinite(a) /\ IsFinite(b)
    THEN Lowest(Fin(a.num * b.den + b.num * a.den, a.den * b.den))
  ELSE IF IsFinite(a) THEN b
  ELSE IF IsFinite(b) THEN a
  ELSE IF a.num = b.num THEN a ELSE NaNf

\* -a
Neg(a) == [a EXCEPT !.num = -a.num]

\* a < b
Less(a, b) ==
  IF IsNaN(a) \/ IsNaN(b) THEN FALSE
  ELSE IF IsFinite(a) /\ IsFinite(b) THEN a.num * b.den < b.num * a.den
  ELSE IF a = b THEN FALSE
  ELSE IF ~IsFinite(a) THEN Negative(a) ELSE Positive(b)

\* Math.max(a, b), Math.min(a, b): NaN when either is NaN
MathMax(a, b) ==
  IF IsNaN(a) \/ IsNaN(b) THEN NaNf ELSE IF Less(a, b) THEN b ELSE a

MathMin(a, b) ==
  IF IsNaN(a) \/ IsNaN(b) THEN NaNf ELSE IF Less(b, a) THEN b ELSE a

\* Math.round(a): the whole number nearest to a, a half rounded up
MathRound(a) ==
  IF IsFinite(a) THEN Whole((2 * a.num + a.den) \div (2 * a.den)) ELSE a

\* a >= n for a whole n
AtLeast(a, n) == ~IsNaN(a) /\ ~Less(a, Whole(n))

\* String.prototype.trim() for the blank " "
RECURSIVE trimStart(_)
trimStart(s) ==
  IF s # <<>> /\ Head(s) = " " THEN trimStart(Tail(s)) ELSE s

RECURSIVE trimEnd(_)
trimEnd(s) ==
  IF s # <<>> /\ s[Len(s)] = " " THEN trimEnd(SubSeq(s, 1, Len(s) - 1)) ELSE s

trim(s) == trimEnd(trimStart(s))

\* SOLVENT_CLASSIFICATION[key] || { score: 'unknown' }: the score of the
\* table's entry for water, ethanol, ethyl acetate, toluene, thf, dcm, dmso,
\* benzene and chloroform, and 'unknown' for a key the table does not have.
SOLVENT_CLASSIFICATION(key) ==
  CASE
       key = <<"w", "a", "t", "e", "r">> -> "recommended"
    [] key = <<"e", "t", "h", "a", "n", "o", "l">> -> "recommended"
    [] key = <<"e", "t", "h", "y", "l", " ", "a", "c", "e", "t", "a", "t", "e">> -> "recommended"
    [] key = <<"t", "o", "l", "u", "e", "n", "e">> -> "usable"
    [] key = <<"t", "h", "f">> -> "usable"
    [] key = <<"d", "c", "m">> -> "problematic"
    [] key = <<"d", "m", "s", "o">> -> "problematic"
    [] key = <<"b", "e", "n", "z", "e", "n", "e">> -> "hazardous"
    [] key = <<"c", "h", "l", "o", "r", "o", "f", "o", "r", "m">> -> "hazardous"
    [] OTHER -> "unknown"

\* classifySolvent(solventName): the score, or that it threw
classifySolvent(solventName) ==
  IF solventName.kind # "string" \/ trim(solventName.text) = <<>>
    THEN [threw |-> TRUE, score |-> ""]
    ELSE [threw |-> FALSE,
          score |-> SOLVENT_CLASSIFICATION(strToLowerCase(trim(solventName.text)))]

\* A destructured parameter with the default 0: the default stands in for
\* undefined only.
OrZero(v) == IF v.kind = "undefined" THEN Whole(0) ELSE v.num

\* Math.min(100, Math.max(0, pct))
Percent(pct) == MathMin(Whole(100), MathMax(Whole(0), pct))

\* efScore = Math.max(0, 100 - eFact)
EFactorScore(eFact) == MathMax(Whole(0), Add(Whole(100), Neg(eFact)))

\* solventScore for the classification sc
SolventScore(sc) ==
  CASE sc = "recommended" -> 100
    [] sc = "usable" -> 70
    [] sc = "problematic" -> 40
    [] sc = "hazardous" -> 10
    [] OTHER -> 50

\* 0.30 * aeScore + 0.25 * efScore + 0.30 * yScore + 0.15 * solventScore
Weighted(d) ==
  Add(Add(Add(Mul(Fin(3, 10), d.aeScore), Mul(Fin(1, 4), d.efScore)),
          Mul(Fin(3, 10), d.yScore)),
      Mul(Fin(3, 20), Whole(d.solventScore)))

\* rounded = Math.round(score * 10) / 10
Rounded(score) == Lowest(Div(MathRound(Mul(score, Whole(10))), Whole(10)))

\* grade, from rounded
Grade(rounded) ==
  IF AtLeast(rounded, 80) THEN "A"
  ELSE IF AtLeast(rounded, 60) THEN "B"
  ELSE IF AtLeast(rounded, 40) THEN "C"
  ELSE IF AtLeast(rounded, 20) THEN "D" ELSE "F"

\* ------------------------------------------------------ reaction strings

\* The characters U+2192 and U+27F6 of a reaction string, each one character.
RightArrow == "U+2192"

LongArrow == "U+27F6"

\* ARROW_PATTERNS, in the order parseReaction tries them
ARROW_PATTERNS == <<<<LongArrow>>, <<RightArrow>>, <<"=", ">">>, <<"-", ">">>>>

\* conditions: null
NullText == <<"null">>

\* re.exec(str).index for a pattern that is plain text: the first index
\* where pat stands in str, or -1.
MatchIndex(str, pat) ==
  LET hits == {k \in 0..(Len(str) - Len(pat)) : substring(str, k, k + Len(pat)) = pat}
  IN IF hits = {} THEN -1 ELSE CHOOSE k \in hits : \A j \in hits : k <= j

\* str.split('+')
RECURSIVE split(_)
split(str) ==
  IF indexOf(str, "+", 0) = -1 THEN <<str>>
  ELSE <<substring(str, 0, indexOf(str, "+", 0))>>
       \o split(substring(str, indexOf(str, "+", 0) + 1, Len(str)))

\* splitComponents(str): the trimmed, non-empty parts between the '+'
splitComponents(str) ==
  SelectSeq([k \in 1..Len(split(str)) |-> trim(split(str)[k])], LAMBDA s : Len(s) > 0)

\* The first of ARROW_PATTERNS from the k-th on that matches str, 0 for none.
RECURSIVE FirstArrow(_, _)
FirstArrow(str, k) ==
  IF k > Len(ARROW_PATTERNS) THEN 0
  ELSE IF MatchIndex(str, ARROW_PATTERNS[k]) # -1 THEN k
  ELSE FirstArrow(str, k + 1)

Thrown == [threw |-> TRUE, reactants |-> <<>>, products |-> <<>>,
           conditions |-> NullText, arrow |-> <<>>]

\* The end of parseReaction: rhs is what follows the arrow, trimmed.
ReactionOf(lhs, rhs, arrow) ==
  LET close == indexOf(rhs, "]", 0)
      bracketed == rhs # <<>> /\ rhs[1] = "[" /\ close # -1
      rest == IF bracketed THEN trim(substring(rhs, close + 1, Len(rhs))) ELSE rhs
  IN IF splitComponents(lhs) = <<>> \/ splitComponents(rest) = <<>> THEN Thrown
     ELSE [threw |-> FALSE,
           reactants |-> splitComponents(lhs),
           products |-> splitComponents(rest),
           conditions |-> IF bracketed THEN trim(substring(rhs, 1, close)) ELSE NullText,
           arrow |-> arrow]

\* parseReaction(reactionStr) for a string argument
parseReaction(reactionStr) ==
  LET str == trim(reactionStr)
      k == FirstArrow(str, 1)
      arrowIndex == MatchIndex(str, ARROW_PATTERNS[k])
  IN IF str = <<>> \/ k = 0 THEN Thrown
     ELSE ReactionOf(trim(substring(str, 0, arrowIndex)),
                     trim(substring(str, arrowIndex + Len(ARROW_PATTERNS[k]), Len(str))),
                     ARROW_PATTERNS[k])

\* list.join(' + ')
RECURSIVE join(_)
join(list) ==
  IF list = <<>> THEN <<>>
  ELSE IF Len(list) = 1 THEN list[1]
  ELSE list[1] \o <<" ", "+", " ">> \o join(Tail(list))

\* formatReaction(parsed) with the default options: the arrow is U+2192.
formatReaction(parsed) ==
  join(parsed.reactants) \o <<" ", RightArrow>>
  \o (IF parsed.conditions # NullText /\ parsed.conditions # <<>>
        THEN <<"[">> \o parsed.conditions \o <<"]">> ELSE <<>>)
  \o <<" ">> \o join(parsed.products)

\* ------------------------------------------------------ the state machine

VARIABLES
  smiles,            \* the notation string under analysis
  pc,                \* the call in progress
  tokI, tokens,      \* tokenize: position i and the tokens pushed so far
  tokIter,           \* tokenize: loop iterations run
  vres,              \* the value validate returned
  i, atoms, bonds, branchStack, ringOpenings,
  prevAtomIdx, pendingBondOrder, ringCount,   \* parseSMILES's locals
  parseIter,         \* parseSMILES: loop iterations run
  threw,             \* parseSMILES: an iteration raised a TypeError
  bondSyms, pendingSym,   \* history: the symbol each bond was written with
  counts,            \* what atomCount(smiles) returned
  formula,           \* what molecularFormula(smiles) returned
  bondTally,         \* what bondCount(smiles) returned
  weight,            \* what molecularWeight(smiles) returned
  rotatable,         \* what countRotatableBonds(smiles) returned
  donors,            \* what countHBD(smiles) returned
  acceptors,         \* what countHBA(smiles) returned
  tpsa,              \* what estimateTPSA(smiles) returned, in tenths
  radius, nBits,     \* morganFingerprint: its options
  fp, identifiers,   \* morganFingerprint: the bit vector and the identifiers
  level,             \* morganFingerprint: r, the radius of the next iteration
  idHistory,         \* history: the identifiers of every radius so far
  fp1, fp2,          \* tanimotoSimilarity: its arguments
  tanI, andCount, orCount,   \* tanimotoSimilarity: i and the two counts
  similarity,        \* what tanimotoSimilarity returned
  queryFp, database, kArg,   \* knnSearch: its arguments (kArg is k)
  scored,            \* knnSearch: the array scored
  neighbours,        \* what knnSearch returned
  params,            \* runKineticsODE: its argument
  kEff, dt,          \* runKineticsODE: the effective rate and the time step
  conv,              \* runKineticsODE: x, the conversion fraction
  data,              \* runKineticsODE: the samples pushed so far
  stepI,             \* runKineticsODE: i of the outer loop
  nSub, subS,         \* runKineticsODE: nSub and s of the inner loop
  request,           \* the HTTP request the server received
  response,          \* the status it answered with, 0 while unanswered
  handler,           \* the route handler the request reached
  coreCalls,          \* the core functions the handler called, in order
  cache,             \* pubchem.js: the Map cache, its entries in insertion order
  now,               \* Date.now()
  inflight,          \* the calls of the fetch functions and what each awaits
  recency,           \* history: the cached keys, least recently used first
  lastGet,           \* history: what the latest cacheGet returned
  greenArgs,         \* greenScore: its parameter object
  details,           \* greenScore: the four sub-scores
  greenOut,           \* what greenScore returned
  graph,             \* _findRingBonds: its arguments, the bonds and n
  ringBonds,          \* what _findRingBonds returned
  inner,             \* the text between the brackets of a bracket atom
  bySymbol,           \* the element each resolver returned for it
  reaction,          \* formatReaction: its argument
  reactionStr,       \* what formatReaction returned
  reparsed           \* what parseReaction returned for it

tokVars == <<tokI, tokens, tokIter>>

parseVars ==
  <<i, atoms, bonds, branchStack, ringOpenings, prevAtomIdx, pendingBondOrder,
    ringCount, parseIter, threw, bondSyms, pendingSym>>

descVars ==
  <<counts, formula, bondTally, weight, rotatable, donors, acceptors, tpsa>>

\* The variables of the analysis of one notation.
analysisVars == <<tokVars, vres, parseVars, descVars>>

fpVars == <<radius, nBits, fp, identifiers, level, idHistory>>

simVars == <<fp1, fp2, tanI, andCount, orCount, similarity>>

knnVars == <<queryFp, database, kArg, scored, neighbours>>

kinVars == <<params, kEff, dt, conv, data, stepI, nSub, subS>>

routeVars == <<request, response, handler, coreCalls>>

cacheVars == <<cache, now, inflight, recency, lastGet>>

greenVars == <<greenArgs, details, greenOut>>

ringVars == <<graph, ringBonds>>

bracketVars == <<inner, bySymbol>>

reactionVars == <<reaction, reactionStr, reparsed>>

\* The variables of the other components.
otherVars == <<fpVars, simVars, knnVars, kinVars, routeVars, cacheVars, greenVars, ringVars, bracketVars, reactionVars>>

\* The variables a call of morganFingerprint, of tanimotoSimilarity and of
\* knnSearch leaves alone.
fpRest == <<analysisVars, simVars, knnVars, kinVars, routeVars, cacheVars, greenVars, ringVars, bracketVars, reactionVars>>

simRest == <<smiles, analysisVars, fpVars, knnVars, kinVars, routeVars, cacheVars, greenVars, ringVars, bracketVars, reactionVars>>

knnRest == <<smiles, analysisVars, fpVars, simVars, kinVars, routeVars, cacheVars, greenVars, ringVars, bracketVars, reactionVars>>

kinRest == <<smiles, analysisVars, fpVars, simVars, knnVars, routeVars, cacheVars, greenVars, ringVars, bracketVars, reactionVars>>

routeRest == <<smiles, analysisVars, fpVars, simVars, knnVars, kinVars, cacheVars, greenVars, ringVars, bracketVars, reactionVars>>

cacheRest == <<smiles, analysisVars, fpVars, simVars, knnVars, kinVars, routeVars, greenVars, ringVars, bracketVars, reactionVars>>

greenRest ==
  <<smiles, analysisVars, fpVars, simVars, knnVars, kinVars, routeVars, cacheVars,
    ringVars, bracketVars, reactionVars>>

ringRest ==
  <<smiles, analysisVars, fpVars, simVars, knnVars, kinVars, routeVars, cacheVars,
    greenVars, bracketVars, reactionVars>>

bracketRest ==
  <<smiles, analysisVars, fpVars, simVars, knnVars, kinVars, routeVars, cacheVars,
    greenVars, ringVars, reactionVars>>

reactionRest ==
  <<smiles, analysisVars, fpVars, simVars, knnVars, kinVars, routeVars, cacheVars,
    greenVars, ringVars, bracketVars>>

vars == <<smiles, pc, analysisVars, otherVars>>

\* A descriptor that has not been called yet.
NotCalled == [threw |-> FALSE, called |-> FALSE]

\* What a call gave: the value it returned, or that it threw.
Called(r) == [threw |-> r.threw, called |-> TRUE, value |-> r]

NoResult == [valid |-> FALSE, error |-> "(not run)", keys |-> <<>>]

\* morganFingerprint has not been called.
FpIdle ==
  /\ radius = 0 /\ nBits = 0 /\ fp = <<>> /\ identifiers = <<>> /\ level = 0
  /\ idHistory = <<>>

\* No notation is under analysis.
AnalysisIdle ==
  /\ tokI = 0 /\ tokens = <<>> /\ tokIter = 0
  /\ vres = NoResult
  /\ i = ParseInit.i /\ atoms = ParseInit.atoms /\ bonds = ParseInit.bonds
  /\ branchStack = ParseInit.branchStack /\ ringOpenings = ParseInit.ringOpenings
  /\ prevAtomIdx = ParseInit.prevAtomIdx
  /\ pendingBondOrder = ParseInit.pendingBondOrder
  /\ ringCount = ParseInit.ringCount
  /\ parseIter = 0
  /\ threw = ParseInit.threw
  /\ bondSyms = ParseInit.bondSyms /\ pendingSym = ParseInit.pendingSym
  /\ counts = NotCalled /\ formula = NotCalled /\ bondTally = NotCalled
  /\ weight = NotCalled /\ rotatable = NotCalled /\ donors = NotCalled
  /\ acceptors = NotCalled /\ tpsa = NotCalled

\* tanimotoSimilarity has not been called.
SimIdle ==
  /\ fp1 = <<>> /\ fp2 = <<>> /\ tanI = 0 /\ andCount = 0 /\ orCount = 0
  /\ similarity = Null

\* knnSearch has not been called.
KnnIdle ==
  /\ queryFp = <<>> /\ database = <<>> /\ kArg = 0 /\ scored = <<>> /\ neighbours = <<>>

\* runKineticsODE has not been called.
KinIdle ==
  /\ params = <<>> /\ kEff = NaNf /\ dt = NaNf /\ conv = Whole(0) /\ data = <<>>
  /\ stepI = 0 /\ nSub = NaNf /\ subS = 0

\* No request has been received.
RouteIdle ==
  /\ request = <<>> /\ response = 0 /\ handler = "" /\ coreCalls = <<>>

\* No function of pubchem.js has been called.
CacheIdle ==
  /\ cache = <<>> /\ now = 0 /\ inflight = <<>> /\ recency = <<>> /\ lastGet = <<>>

\* greenScore has not been called.
GreenIdle == greenArgs = <<>> /\ details = <<>> /\ greenOut = <<>>

\* _findRingBonds has not been called on a graph of its own.
RingIdle == graph = <<>> /\ ringBonds = <<>>

\* No bracket atom is being resolved on its own.
BracketIdle == inner = <<>> /\ bySymbol = <<>>

\* No reaction is being formatted.
ReactionIdle == reaction = <<>> /\ reactionStr = <<>> /\ reparsed = <<>>

\* The other components are at rest.
OthersIdle == FpIdle /\ SimIdle /\ KnnIdle /\ KinIdle /\ RouteIdle /\ CacheIdle /\ GreenIdle /\ RingIdle /\ BracketIdle /\ ReactionIdle

Init ==
  /\ smiles \in Inputs
  /\ pc = "tokenize"
  /\ tokI = 0 /\ tokens = <<>> /\ tokIter = 0
  /\ vres = NoResult
  /\ i = ParseInit.i /\ atoms = ParseInit.atoms /\ bonds = ParseInit.bonds
  /\ branchStack = ParseInit.branchStack /\ ringOpenings = ParseInit.ringOpenings
  /\ prevAtomIdx = ParseInit.prevAtomIdx
  /\ pendingBondOrder = ParseInit.pendingBondOrder
  /\ ringCount = ParseInit.ringCount
  /\ parseIter = 0
  /\ threw = ParseInit.threw
  /\ bondSyms = ParseInit.bondSyms /\ pendingSym = ParseInit.pendingSym
  /\ counts = NotCalled /\ formula = NotCalled /\ bondTally = NotCalled
  /\ weight = NotCalled /\ rotatable = NotCalled /\ donors = NotCalled
  /\ acceptors = NotCalled /\ tpsa = NotCalled
  /\ OthersIdle

\* tokenize's loop is at an iteration that takes the branch `kind`.
TokAt(kind) ==
  pc = "tokenize" /\ tokI < Len(smiles) /\ TokKind(smiles, tokI) = kind

\* The iteration's effect on tokenize's locals.
\* An iteration that pushes its token and stays where it is.
TokAssignInPlace(st) == tokI' = tokI /\ tokens' = st.tokens

\* i and tokens after the iteration.
TokAssign(st) == tokI' = st.i /\ tokens' = st.tokens

TokIteration ==
  /\ TokAssign(TokStep(smiles, [i |-> tokI, tokens |-> tokens]))
  /\ tokIter' = tokIter + 1
  /\ UNCHANGED <<smiles, pc, vres, parseVars, descVars, otherVars>>

TokBranchOpen == TokAt("branch_open") /\ TokIteration

TokBranchClose == TokAt("branch_close") /\ TokIteration

TokBond == TokAt("bond") /\ TokIteration

TokRing == TokAt("ring") /\ TokIteration

TokRingPercent == TokAt("ring_percent") /\ TokIteration

TokBracket == TokAt("bracket") /\ TokIteration

TokTwoLetter == TokAt("two_letter") /\ TokIteration

TokSingleLetter == TokAt("single_letter") /\ TokIteration

TokSkip == TokAt("skip") /\ TokIteration

\* tokenize returns: the loop condition i < smiles.length fails.
TokReturn ==
  /\ pc = "tokenize"
  /\ ~(tokI < Len(smiles))
  /\ pc' = "validate"
  /\ UNCHANGED <<smiles, tokVars, vres, parseVars, descVars, otherVars>>

Validate ==
  /\ pc = "validate"
  /\ vres' = validate(TRUE, smiles)
  /\ pc' = "parse"
  /\ UNCHANGED <<smiles, tokVars, parseVars, descVars, otherVars>>

ParseState ==
  [i |-> i, atoms |-> atoms, bonds |-> bonds, branchStack |-> branchStack,
   ringOpenings |-> ringOpenings, prevAtomIdx |-> prevAtomIdx,
   pendingBondOrder |-> pendingBondOrder, ringCount |-> ringCount,
   threw |-> threw, bondSyms |-> bondSyms, pendingSym |-> pendingSym]

\* parseSMILES's loop is at an iteration that takes the branch `kind`.
ParseAt(kind) ==
  pc = "parse" /\ ~threw /\ i < Len(smiles) /\ ParseKind(smiles, i) = kind

\* The iteration's effect on parseSMILES's locals.
ParseAssign(st) ==
  /\ i' = st.i /\ atoms' = st.atoms /\ bonds' = st.bonds
  /\ branchStack' = st.branchStack /\ ringOpenings' = st.ringOpenings
  /\ prevAtomIdx' = st.prevAtomIdx
  /\ pendingBondOrder' = st.pendingBondOrder
  /\ ringCount' = st.ringCount
  /\ threw' = st.threw
  /\ bondSyms' = st.bondSyms /\ pendingSym' = st.pendingSym

ParseIteration ==
  /\ ParseAssign(ParseStep(smiles, ParseState))
  /\ parseIter' = parseIter + 1
  /\ UNCHANGED <<smiles, pc, tokVars, vres, descVars, otherVars>>

ParseBranchOpen == ParseAt("branch_open") /\ ParseIteration

ParseBranchClose == ParseAt("branch_close") /\ ParseIteration

ParseBond == ParseAt("bond") /\ ParseIteration

ParseStereo == ParseAt("stereo") /\ ParseIteration

ParseRing == ParseAt("ring") /\ ParseIteration

ParseRingPercent == ParseAt("ring_percent") /\ ParseIteration

ParseBracket == ParseAt("bracket") /\ ParseIteration

ParseTwoLetter == ParseAt("two_letter") /\ ParseIteration

ParseSingleLetter == ParseAt("single_letter") /\ ParseIteration

ParseDot == ParseAt("dot") /\ ParseIteration

ParseSkip == ParseAt("skip") /\ ParseIteration

\* parseSMILES returns {atoms, bonds, rings}.
ParseReturn ==
  /\ pc = "parse"
  /\ ~threw
  /\ ~(i < Len(smiles))
  /\ pc' = "atomCount"
  /\ UNCHANGED <<smiles, tokVars, vres, parseVars, descVars, otherVars>>

AtomCount ==
  /\ pc = "atomCount"
  /\ counts' = Called(atomCount(smiles))
  /\ pc' = "molecularFormula"
  /\ UNCHANGED <<smiles, tokVars, vres, parseVars, formula, bondTally, weight, rotatable,
               donors, acceptors, tpsa, otherVars>>

MolecularFormula ==
  /\ pc = "molecularFormula"
  /\ formula' = Called(molecularFormula(smiles))
  /\ pc' = "bondCount"
  /\ UNCHANGED <<smiles, tokVars, vres, parseVars, counts, bondTally, weight, rotatable,
               donors, acceptors, tpsa, otherVars>>

BondCount ==
  /\ pc = "bondCount"
  /\ bondTally' = Called(bondCount(smiles))
  /\ pc' = "molecularWeight"
  /\ UNCHANGED <<smiles, tokVars, vres, parseVars, counts, formula, weight, rotatable,
               donors, acceptors, tpsa, otherVars>>

MolecularWeight ==
  /\ pc = "molecularWeight"
  /\ weight' = Called(molecularWeight(smiles))
  /\ pc' = "countRotatableBonds"
  /\ UNCHANGED <<smiles, tokVars, vres, parseVars, counts, formula, bondTally, rotatable,
               donors, acceptors, tpsa, otherVars>>

CountRotatableBonds ==
  /\ pc = "countRotatableBonds"
  /\ rotatable' = Called(countRotatableBonds(smiles))
  /\ pc' = "countHBD"
  /\ UNCHANGED <<smiles, tokVars, vres, parseVars, counts, formula, bondTally, weight,
               donors, acceptors, tpsa, otherVars>>

\* countHBD raises no error of its own: its indexed updates and reads never
\* take a property of undefined.
CountHBD ==
  /\ pc = "countHBD"
  /\ donors' = [threw |-> FALSE, called |-> TRUE, value |-> countHBD(smiles)]
  /\ pc' = "countHBA"
  /\ UNCHANGED <<smiles, tokVars, vres, parseVars, counts, formula, bondTally, weight,
               rotatable, acceptors, tpsa, otherVars>>

\* countHBA reads the atoms only.
CountHBA ==
  /\ pc = "countHBA"
  /\ acceptors' = [threw |-> FALSE, called |-> TRUE, value |-> countHBA(smiles)]
  /\ pc' = "estimateTPSA"
  /\ UNCHANGED <<smiles, tokVars, vres, parseVars, counts, formula, bondTally, weight,
               rotatable, donors, tpsa, otherVars>>

\* estimateTPSA's indexed updates through an index that is no atom's set a
\* property of the array and raise no error.
EstimateTPSA ==
  /\ pc = "estimateTPSA"
  /\ \E r \in estimateTPSA(smiles) :
       tpsa' = [threw |-> FALSE, called |-> TRUE, value |-> r]
  /\ pc' = "done"
  /\ UNCHANGED <<smiles, tokVars, vres, parseVars, counts, formula, bondTally, weight,
               rotatable, donors, acceptors, otherVars>>

TokNext ==
  \/ TokBranchOpen \/ TokBranchClose \/ TokBond \/ TokRing \/ TokRingPercent
  \/ TokBracket \/ TokTwoLetter \/ TokSingleLetter \/ TokSkip \/ TokReturn

ParseNext ==
  \/ ParseBranchOpen \/ ParseBranchClose \/ ParseBond \/ ParseStereo \/ ParseRing
  \/ ParseRingPercent \/ ParseBracket \/ ParseTwoLetter \/ ParseSingleLetter
  \/ ParseDot \/ ParseSkip \/ ParseReturn

Next ==
  \/ TokNext
  \/ Validate
  \/ ParseNext
  \/ AtomCount \/ MolecularFormula \/ BondCount \/ MolecularWeight
  \/ CountRotatableBonds \/ CountHBD \/ CountHBA \/ EstimateTPSA

Spec == Init /\ [][Next]_vars

\* ------------------------------------------- morganFingerprint, stepwise

\* The largest radius a fingerprint is asked for.
MaxRadius == 2

\* The lengths a fingerprint is asked for: none, one entry, a few, the
\* default.
BitLengths == {0, 1, 8, 128}

\* The longest notation drawn exhaustively for a fingerprint.
MaxFpLen == 3

FpAlphabet == {"C", "O", "=", "1"}

methanol == <<"C", "O">>

FpInputs ==
  UNION {[1..n -> FpAlphabet] : n \in 0..MaxFpLen} \cup Examples \cup {methanol}

FpInit ==
  /\ smiles \in FpInputs
  /\ pc = "morganFingerprint"
  /\ AnalysisIdle
  /\ radius \in 0..MaxRadius /\ nBits \in BitLengths
  /\ fp = <<>> /\ identifiers = <<>> /\ level = 0 /\ idHistory = <<>>
  /\ SimIdle /\ KnnIdle /\ KinIdle /\ RouteIdle /\ CacheIdle /\ GreenIdle /\ RingIdle /\ BracketIdle /\ ReactionIdle

\* parseSMILES or buildAdjacency raises a TypeError.
MorganThrows(s) ==
  ParseRun(s, ParseInit).threw \/ buildAdjacency(parseSMILES(s)).threw

\* const adj = buildAdjacency(parsed)
MorganAdj(s) == buildAdjacency(parseSMILES(s)).adj

\* The TypeError leaves morganFingerprint; nothing is returned.
MorganThrow ==
  /\ pc = "morganFingerprint"
  /\ MorganThrows(smiles)
  /\ pc' = "morganThrew"
  /\ UNCHANGED <<smiles, fpVars, fpRest>>

\* parse, adjacency, new Uint8Array(nBits), the identifiers of radius 0 and
\* their bits.
MorganStart ==
  /\ pc = "morganFingerprint"
  /\ ~MorganThrows(smiles)
  /\ identifiers' = InitialIdentifiers(parseSMILES(smiles), MorganAdj(smiles))
  /\ fp' = SetBits(Uint8Array(nBits), identifiers', nBits)
  /\ level' = 1
  /\ idHistory' = <<identifiers'>>
  /\ pc' = "morganRadii"
  /\ UNCHANGED <<smiles, radius, nBits, fpRest>>

\* One iteration of for (let r = 1; r <= radius; r++).
MorganIterate ==
  /\ pc = "morganRadii"
  /\ level <= radius
  /\ identifiers' = NextIds(MorganAdj(smiles), identifiers, level)
  /\ fp' = SetBits(fp, identifiers', nBits)
  /\ level' = level + 1
  /\ idHistory' = Append(idHistory, identifiers')
  /\ UNCHANGED <<smiles, pc, radius, nBits, fpRest>>

\* return fp
MorganReturn ==
  /\ pc = "morganRadii"
  /\ ~(level <= radius)
  /\ pc' = "morganReturned"
  /\ UNCHANGED <<smiles, fpVars, fpRest>>

FpNext == MorganThrow \/ MorganStart \/ MorganIterate \/ MorganReturn

FingerprintSpec == FpInit /\ [][FpNext]_vars

\* ------------------------------------------ tanimotoSimilarity, stepwise

\* The longest vector drawn exhaustively.
MaxVecLen == 3

\* The binary vectors of up to MaxVecLen entries.
Vectors == UNION {[1..n -> {0, 1}] : n \in 0..MaxVecLen}

\* The notations whose fingerprints are compared.
Compared == {ethanol, methanol, benzene}

\* morganFingerprint(s) with the default options.
DefaultFingerprint(s) == morganFingerprint(s, 2, 128).fp

\* Two vectors, or the fingerprints of the notation smiles and of another.
SimInit ==
  /\ pc = "tanimotoSimilarity"
  /\ AnalysisIdle /\ FpIdle /\ KnnIdle /\ KinIdle /\ RouteIdle /\ CacheIdle /\ GreenIdle /\ RingIdle /\ BracketIdle /\ ReactionIdle
  /\ \/ smiles = <<>> /\ fp1 \in Vectors /\ fp2 \in Vectors
     \/ /\ smiles \in Compared
        /\ fp1 = DefaultFingerprint(smiles)
        /\ \E other \in Compared : fp2 = DefaultFingerprint(other)
  /\ tanI = 0 /\ andCount = 0 /\ orCount = 0
  /\ similarity = Null

\* One iteration of for (let i = 0; i < len; i++).
TanimotoIterate ==
  /\ pc = "tanimotoSimilarity"
  /\ tanI < Min(Len(fp1), Len(fp2))
  /\ andCount' = andCount + BitAnd(Truthy(At(fp1, tanI)), Truthy(At(fp2, tanI)))
  /\ orCount' = orCount + BitOr(Truthy(At(fp1, tanI)), Truthy(At(fp2, tanI)))
  /\ tanI' = tanI + 1
  /\ UNCHANGED <<pc, fp1, fp2, similarity, simRest>>

\* return orCount === 0 ? 0 : andCount / orCount
TanimotoReturn ==
  /\ pc = "tanimotoSimilarity"
  /\ ~(tanI < Min(Len(fp1), Len(fp2)))
  /\ similarity' = TanimotoOfCounts(andCount, orCount)
  /\ pc' = "tanimotoReturned"
  /\ UNCHANGED <<fp1, fp2, tanI, andCount, orCount, simRest>>

SimNext == TanimotoIterate \/ TanimotoReturn

SimilaritySpec == SimInit /\ [][SimNext]_vars

\* ---------------------------------------------------- knnSearch, stepwise

\* The most entries of a database, the length of their vectors and the
\* largest k.
MaxEntries == 3

KnnVecLen == 2

MaxK == 4

\* The ids of the entries of a database, by position.
EntryIds == <<"first", "second", "third", "fourth", "fifth", "sixth">>

\* The databases of n entries: any vector of KnnVecLen entries as the
\* fingerprint of each.
DatabasesOf(n) ==
  {[p \in 1..n |-> [id |-> EntryIds[p], fingerprint |-> f[p]]] :
     f \in [1..n -> [1..KnnVecLen -> {0, 1}]]}

\* The database of three fingerprints, searched for ethanol.
FingerprintDatabase ==
  <<[id |-> "ethanol", fingerprint |-> DefaultFingerprint(ethanol)],
    [id |-> "methanol", fingerprint |-> DefaultFingerprint(methanol)],
    [id |-> "benzene", fingerprint |-> DefaultFingerprint(benzene)]>>

KnnInit ==
  /\ pc = "knnSearch"
  /\ smiles = <<>>
  /\ AnalysisIdle /\ FpIdle /\ SimIdle /\ KinIdle /\ RouteIdle /\ CacheIdle /\ GreenIdle /\ RingIdle /\ BracketIdle /\ ReactionIdle
  /\ \/ /\ queryFp \in [1..KnnVecLen -> {0, 1}]
        /\ database \in UNION {DatabasesOf(n) : n \in 0..MaxEntries}
     \/ /\ queryFp = DefaultFingerprint(ethanol)
        /\ database = FingerprintDatabase
  /\ kArg \in 0..MaxK
  /\ scored = <<>> /\ neighbours = <<>>

\* const scored = database.map(...)
KnnScore ==
  /\ pc = "knnSearch"
  /\ scored' = ScoreAll(queryFp, database)
  /\ pc' = "knnSort"
  /\ UNCHANGED <<queryFp, database, kArg, neighbours, knnRest>>

\* scored.sort(...)
KnnSort ==
  /\ pc = "knnSort"
  /\ scored' = SortScored(scored, Len(scored))
  /\ pc' = "knnSlice"
  /\ UNCHANGED <<queryFp, database, kArg, neighbours, knnRest>>

\* return scored.slice(0, k)
KnnReturn ==
  /\ pc = "knnSlice"
  /\ neighbours' = SliceTo(scored, kArg)
  /\ pc' = "knnReturned"
  /\ UNCHANGED <<queryFp, database, kArg, scored, knnRest>>

KnnNext == KnnScore \/ KnnSort \/ KnnReturn

KnnSpec == KnnInit /\ [][KnnNext]_vars

\* --------------------------------------------- runKineticsODE, stepwise

\* The largest number of integration steps and the longest total time, in
\* seconds, a simulation is drawn with, besides the default of 200 steps.
MaxSteps == 3

MaxTime == 2

\* The sub-steps the model counts of an inner loop that has no last one.
MaxSub == 2

\* The temperatures, in degrees Celsius: below absolute zero, the
\* esterification's, not a number.
Temperatures == {Whole(-274), Whole(85), NaNf}

TotalTimes == {Whole(t) : t \in -1..MaxTime} \cup {NaNf}

\* The values of steps the POST /simulate/kinetics route lets through:
\* Number(steps) is not greater than 10000 (NaN is not), or steps is absent
\* and the route passes 200.
StepCounts ==
  {Whole(n) : n \in -1..MaxSteps} \cup {Fin(5, 2), NaNf, Whole(DEFAULT_STEPS)}

KineticsParams ==
  [temperature : Temperatures, totalTime : TotalTimes, steps : StepCounts]

KinInit ==
  /\ pc = "runKineticsODE"
  /\ smiles = <<>>
  /\ AnalysisIdle /\ FpIdle /\ SimIdle /\ KnnIdle /\ RouteIdle /\ CacheIdle /\ GreenIdle /\ RingIdle /\ BracketIdle /\ ReactionIdle
  /\ params \in KineticsParams
  /\ kEff = NaNf /\ dt = NaNf /\ conv = Whole(0) /\ data = <<>>
  /\ stepI = 0 /\ nSub = NaNf /\ subS = 0

\* const k = arrheniusRate(...) ... const dt = totalTime / steps; let x = 0;
\* const data = []; for (let i = 0; ...
KineticsStart ==
  /\ pc = "runKineticsODE"
  /\ \E k \in arrheniusRate(params.temperature) :
       kEff' = Mul(k, catalystFactor(DEFAULT_CATALYST_DROPS))
  /\ dt' = Div(params.totalTime, params.steps)
  /\ conv' = Whole(0)
  /\ data' = <<>>
  /\ stepI' = 0
  /\ pc' = "kineticsLoop"
  /\ UNCHANGED <<params, nSub, subS, kinRest>>

\* i <= steps: data.push({...}); const nSub = ...; for (let s = 0; ...
KineticsSample ==
  /\ pc = "kineticsLoop"
  /\ CountLessEq(stepI, params.steps)
  /\ data' = Append(data, Sample(stepI, dt, conv))
  /\ nSub' = SubSteps(dt, kEff, DEFAULT_EQUIV)
  /\ subS' = 0
  /\ pc' = "kineticsSub"
  /\ UNCHANGED <<params, kEff, dt, conv, stepI, kinRest>>

\* s < nSub: one RK4 sub-step, then s++. Under an nSub of Infinity s grows
\* without end; the model stops counting at MaxSub.
KineticsSubStep ==
  /\ pc = "kineticsSub"
  /\ CountLess(subS, nSub)
  /\ conv' = Clamped
  /\ subS' = IF IsFinite(nSub) THEN subS + 1 ELSE Min(subS + 1, MaxSub)
  /\ UNCHANGED <<pc, params, kEff, dt, data, stepI, nSub, kinRest>>

\* !(s < nSub): the inner loop is over; i++
KineticsSubDone ==
  /\ pc = "kineticsSub"
  /\ ~CountLess(subS, nSub)
  /\ stepI' = stepI + 1
  /\ pc' = "kineticsLoop"
  /\ UNCHANGED <<params, kEff, dt, conv, data, nSub, subS, kinRest>>

\* !(i <= steps): return data
KineticsReturn ==
  /\ pc = "kineticsLoop"
  /\ ~CountLessEq(stepI, params.steps)
  /\ pc' = "kineticsReturned"
  /\ UNCHANGED <<kinVars, kinRest>>

KinNext ==
  \/ KineticsStart \/ KineticsSample \/ KineticsSubStep \/ KineticsSubDone
  \/ KineticsReturn

KineticsSpec == KinInit /\ [][KinNext]_vars

\* runKineticsODE runs on one thread that nothing preempts: a step that can
\* be taken is taken.
KineticsFairSpec == KineticsSpec /\ WF_vars(KinNext)

\* ------------------------------------------------ the API router's requests

\* A notation of n carbon atoms.
LongNotation(n) == [k \in 1..n |-> "C"]

ringOnly == <<"1", "C", "1">>

\* The smiles a request carries: none, the empty string, ethanol, a
\* notation on which the core throws, and notations of 1000 and of 1001
\* characters.
SmilesArgs ==
  {Absent, Text(<<>>), Text(ethanol), Text(ringOnly),
   Text(LongNotation(MAX_SMILES_LENGTH)), Text(LongNotation(MAX_SMILES_LENGTH + 1))}

Methods == {"GET", "POST"}

\* The endpoints of the README's API reference.
README_ENDPOINTS ==
  {<<"GET", <<"api", "health">>>>,
   <<"GET", <<"api", "molecule", "properties">>>>,
   <<"GET", <<"api", "molecule", "fingerprint">>>>,
   <<"GET", <<"api", "molecule", "similarity">>>>,
   <<"POST", <<"api", "molecule", "risk">>>>,
   <<"GET", <<"api", "molecule", "druglikeness">>>>,
   <<"POST", <<"api", "simulate", "esterification">>>>,
   <<"POST", <<"api", "simulate", "kinetics">>>>,
   <<"POST", <<"api", "reaction", "parse">>>>,
   <<"GET", <<"api", "pubchem", "compound">>>>,
   <<"GET", <<"api", "pubchem", "autocomplete">>>>,
   <<"POST", <<"api", "green", "metrics">>>>,
   <<"GET", <<"api", "green", "solvent">>>>,
   <<"POST", <<"api", "chem-assistant">>>>}

\* The paths requests are made to: the README's, one nobody lists, and one
\* outside the mount.
Paths ==
  {e[2] : e \in README_ENDPOINTS} \cup {<<"api", "unknown">>, <<"health">>}

Blank(method, path) ==
  [method |-> method, path |-> path, smiles |-> Absent, smiles1 |-> Absent,
   smiles2 |-> Absent, embedding |-> Absent, temperature |-> Absent,
   time |-> Absent, totalTime |-> Absent, steps |-> Absent, reaction |-> Absent,
   name |-> Absent, query |-> Absent, message |-> Absent]

\* The values of steps a request carries.
StepsArgs ==
  {Absent, Numeric(Whole(0)), Numeric(Whole(MaxSteps)), Numeric(Whole(MAX_SIM_STEPS)),
   Numeric(Whole(MAX_SIM_STEPS + 1)), Text(<<"a">>)}

Requests ==
  {[Blank(m, p) EXCEPT !.smiles = s] : m \in Methods, p \in Paths, s \in SmilesArgs}
  \cup {[Blank("GET", <<"api", "molecule", "similarity">>)
           EXCEPT !.smiles1 = a, !.smiles2 = b] : a \in SmilesArgs, b \in SmilesArgs}
  \cup {[Blank("POST", <<"api", "molecule", "risk">>)
           EXCEPT !.smiles = s, !.embedding = List(<<1, 0>>)] : s \in SmilesArgs}
  \cup {[Blank("POST", <<"api", "simulate", "esterification">>)
           EXCEPT !.temperature = a, !.time = b] :
          a \in {Absent, Numeric(Whole(85))}, b \in {Absent, Numeric(Whole(1))}}
  \cup {[Blank("POST", <<"api", "simulate", "kinetics">>)
           EXCEPT !.temperature = a, !.totalTime = b, !.steps = c] :
          a \in {Absent, Numeric(Whole(85))}, b \in {Absent, Numeric(Whole(1))},
          c \in StepsArgs}
  \cup {[Blank("POST", <<"api", "reaction", "parse">>) EXCEPT !.reaction = a] :
          a \in {Text(<<>>), Text(<<"A">>)}}
  \cup {[Blank("GET", <<"api", "pubchem", "compound">>) EXCEPT !.name = a] :
          a \in {Text(<<"a">>)}}
  \cup {[Blank("GET", <<"api", "pubchem", "autocomplete">>) EXCEPT !.query = a] :
          a \in {Text(<<"a">>)}}
  \cup {[Blank("POST", <<"api", "chem-assistant">>) EXCEPT !.message = a] :
          a \in {Text(<<"a">>), Numeric(Whole(1))}}

RouteInit ==
  /\ pc = "request"
  /\ smiles = <<>>
  /\ AnalysisIdle /\ FpIdle /\ SimIdle /\ KnnIdle /\ KinIdle /\ CacheIdle /\ GreenIdle /\ RingIdle /\ BracketIdle /\ ReactionIdle
  /\ request \in Requests
  /\ response = 0 /\ handler = "" /\ coreCalls = <<>>

\* The handler h answers with the status after the calls made.
Answer(h, status, calls) ==
  /\ handler' = h
  /\ response' = status
  /\ coreCalls' = calls
  /\ pc' = "responded"
  /\ UNCHANGED <<request, routeRest>>

\* The handler runs the calls inside try { } and answers.
AnswerAfter(h, calls) ==
  \E run \in CallRuns(calls) : Answer(h, StatusAfter(run), run)

\* router.get('/health', ...)
Health ==
  /\ pc = "request"
  /\ Routed(request, "GET", <<"health">>)
  /\ Answer("health", 200, <<>>)

\* router.get('/molecule/properties', ...)
MoleculeProperties ==
  /\ pc = "request"
  /\ Routed(request, "GET", <<"molecule", "properties">>)
  /\ IF validateSmiles(request.smiles) # "null"
       THEN Answer("molecule/properties", 400, <<>>)
       ELSE AnswerAfter("molecule/properties",
                        <<<<"molecularWeight", request.smiles.text>>,
                          <<"molecularFormula", request.smiles.text>>,
                          <<"atomCount", request.smiles.text>>,
                          <<"bondCount", request.smiles.text>>>>)

\* router.get('/molecule/fingerprint', ...); requests carry no radius and
\* no nBits, so that parseInt(...) || 2 is 2 and parseInt(...) || 128 is 128.
MoleculeFingerprint ==
  /\ pc = "request"
  /\ Routed(request, "GET", <<"molecule", "fingerprint">>)
  /\ IF validateSmiles(request.smiles) # "null"
       THEN Answer("molecule/fingerprint", 400, <<>>)
       ELSE AnswerAfter("molecule/fingerprint",
                        <<<<"morganFingerprint", request.smiles.text>>>>)

\* router.get('/molecule/similarity', ...); tanimotoSimilarity does not
\* throw.
MoleculeSimilarity ==
  /\ pc = "request"
  /\ Routed(request, "GET", <<"molecule", "similarity">>)
  /\ IF \/ Falsy(request.smiles1) \/ Falsy(request.smiles2)
        \/ validateSmiles(request.smiles1) # "null"
        \/ validateSmiles(request.smiles2) # "null"
       THEN Answer("molecule/similarity", 400, <<>>)
       ELSE \E run \in CallRuns(<<<<"morganFingerprint", request.smiles1.text>>,
                                  <<"morganFingerprint", request.smiles2.text>>>>) :
              Answer("molecule/similarity", StatusAfter(run),
                     IF StatusAfter(run) = 200
                       THEN Append(run, Call("tanimotoSimilarity", FALSE)) ELSE run)

\* router.post('/molecule/risk', ...); riskScore and classifyRisk do not
\* throw.
MoleculeRisk ==
  /\ pc = "request"
  /\ Routed(request, "POST", <<"molecule", "risk">>)
  /\ IF Falsy(request.smiles) /\ Falsy(request.embedding)
       THEN Answer("molecule/risk", 400, <<>>)
       ELSE \E run \in (IF Falsy(request.embedding)
                          THEN CallRuns(<<<<"morganFingerprint", request.smiles.text>>>>)
                          ELSE {<<>>}) :
              Answer("molecule/risk", StatusAfter(run),
                     IF StatusAfter(run) = 200
                       THEN run \o <<Call("riskScore", FALSE), Call("classifyRisk", FALSE)>>
                       ELSE run)

\* router.post('/simulate/esterification', ...); simulateEsterification
\* does not throw.
SimulateEsterification ==
  /\ pc = "request"
  /\ Routed(request, "POST", <<"simulate", "esterification">>)
  /\ IF IsNullish(request.temperature) \/ IsNullish(request.time)
       THEN Answer("simulate/esterification", 400, <<>>)
       ELSE Answer("simulate/esterification", 200,
                   <<Call("simulateEsterification", FALSE)>>)

\* The argument the kinetics route passes to runKineticsODE.
KineticsArgument(req) ==
  [temperature |-> Number(req.temperature), totalTime |-> Number(req.totalTime),
   steps |-> IF IsNullish(req.steps) THEN Whole(DEFAULT_STEPS) ELSE Number(req.steps)]

\* router.post('/simulate/kinetics', ...): a call of runKineticsODE that
\* does not return leaves the request unanswered.
SimulateKinetics ==
  /\ pc = "request"
  /\ Routed(request, "POST", <<"simulate", "kinetics">>)
  /\ IF IsNullish(request.temperature) \/ IsNullish(request.totalTime)
       THEN Answer("simulate/kinetics", 400, <<>>)
     ELSE IF Exceeds(KineticsArgument(request).steps, MAX_SIM_STEPS)
       THEN Answer("simulate/kinetics", 400, <<>>)
     ELSE \E k \in arrheniusRate(KineticsArgument(request).temperature) :
            IF KineticsReturns(KineticsArgument(request), k)
              THEN Answer("simulate/kinetics", 200, <<Call("runKineticsODE", FALSE)>>)
              ELSE /\ handler' = "simulate/kinetics"
                   /\ coreCalls' = <<Call("runKineticsODE", FALSE)>>
                   /\ pc' = "runKineticsODE"
                   /\ UNCHANGED <<request, response, routeRest>>

\* router.post('/reaction/parse', ...): parseReaction throws on a string
\* without a reaction arrow.
ReactionParse ==
  /\ pc = "request"
  /\ Routed(request, "POST", <<"reaction", "parse">>)
  /\ IF Falsy(request.reaction)
       THEN Answer("reaction/parse", 400, <<>>)
       ELSE \E t \in BOOLEAN :
              Answer("reaction/parse", IF t THEN 400 ELSE 200,
                     <<Call("parseReaction", t)>>)

\* router.get('/pubchem/compound', ...)
PubchemCompound ==
  /\ pc = "request"
  /\ Routed(request, "GET", <<"pubchem", "compound">>)
  /\ IF Falsy(request.smiles) /\ Falsy(request.name)
       THEN Answer("pubchem/compound", 400, <<>>)
       ELSE \E status \in PubChemStatuses : Answer("pubchem/compound", status, <<>>)

\* router.get('/pubchem/autocomplete', ...)
PubchemAutocomplete ==
  /\ pc = "request"
  /\ Routed(request, "GET", <<"pubchem", "autocomplete">>)
  /\ IF Falsy(request.query)
       THEN Answer("pubchem/autocomplete", 400, <<>>)
       ELSE \E status \in PubChemStatuses : Answer("pubchem/autocomplete", status, <<>>)

\* router.post('/chem-assistant', ...)
ChemAssistant ==
  /\ pc = "request"
  /\ Routed(request, "POST", <<"chem-assistant">>)
  /\ IF Falsy(request.message) \/ request.message.kind # "string"
       THEN Answer("chem-assistant", 400, <<>>)
       ELSE Answer("chem-assistant", 200, <<>>)

\* No route is registered for the method and the path: the request falls
\* through the router and the application answers 404.
Unmatched ==
  /\ pc = "request"
  /\ \A r \in Routes : ~Routed(request, r[1], r[2])
  /\ Answer("none", 404, <<>>)

RouteNext ==
  \/ Health \/ MoleculeProperties \/ MoleculeFingerprint \/ MoleculeSimilarity
  \/ MoleculeRisk \/ SimulateEsterification \/ SimulateKinetics \/ ReactionParse
  \/ PubchemCompound \/ PubchemAutocomplete \/ ChemAssistant \/ Unmatched

RouteSpec == RouteInit /\ [][RouteNext]_vars

\* ------------------------------------------- the PubChem cache, stepwise

\* The calls of fetchBySMILES, fetchByName and autocomplete in flight at a
\* time.
MaxCalls == 2

\* The argument the calls are made with: a notation, a name or a query;
\* and the limits autocomplete is called with, its default and another.
CallArgs == {<<"a">>}

Limits == {<<"10">>, <<"5">>}

\* A call in flight: its function, its cache key and the request it awaits.
Pending(fn, key, await) == [fn |-> fn, key |-> key, await |-> await]

\* `smiles:${smiles}`, `name:${name}`, `ac:${query}:${limit}`
CacheKey(prefix, arg) == <<prefix, arg>>

CacheInit ==
  /\ pc = "pubchem"
  /\ smiles = <<>>
  /\ AnalysisIdle /\ FpIdle /\ SimIdle /\ KnnIdle /\ KinIdle /\ RouteIdle /\ GreenIdle /\ RingIdle /\ BracketIdle /\ ReactionIdle
  /\ cache = <<>>
  /\ now = 0
  /\ inflight = EmptyBag
  /\ recency = <<>>
  /\ lastGet = Miss

\* The start of a call, up to its first await: cacheGet(cacheKey), and on
\* a miss the request that the call awaits.
Begin(fn, key, await) ==
  /\ BagCardinality(inflight) < MaxCalls
  /\ cache' = cacheGet(cache, key, now).cache
  /\ lastGet' = cacheGet(cache, key, now).got
  /\ recency' =
       IF cacheGet(cache, key, now).got.hit
         THEN Used(recency, key, cacheGet(cache, key, now).cache)
         ELSE SelectSeq(recency, LAMBDA q : MapHas(cacheGet(cache, key, now).cache, q))
  /\ inflight' =
       IF cacheGet(cache, key, now).got.hit THEN inflight
       ELSE inflight (+) SetToBag({Pending(fn, key, await)})
  /\ UNCHANGED <<pc, now, cacheRest>>

\* async function fetchBySMILES(smiles), to its first await
FetchBySMILES ==
  \E arg \in CallArgs : Begin("fetchBySMILES", CacheKey("smiles", arg), "cids")

\* async function fetchByName(name), to its first await
FetchByName ==
  \E arg \in CallArgs : Begin("fetchByName", CacheKey("name", arg), "cids")

\* async function autocomplete(query, limit), to its await
Autocomplete ==
  \E arg \in CallArgs, limit \in Limits :
    Begin("autocomplete", CacheKey("ac", arg \o <<":">> \o limit), "suggestions")

\* The request for the CIDs ends: with a CID the call goes on to request
\* the properties; without one, or on an error, it throws.
CidsArrive ==
  \E call \in BagToSet(inflight), found \in BOOLEAN :
    /\ call.await = "cids"
    /\ inflight' =
         (inflight (-) SetToBag({call}))
         (+) (IF found THEN SetToBag({[call EXCEPT !.await = "properties"]})
              ELSE EmptyBag)
    /\ UNCHANGED <<pc, cache, now, recency, lastGet, cacheRest>>

\* The last request of a call ends: on an error the call throws, otherwise
\* cacheSet(cacheKey, result) and the call returns.
Arrive(await) ==
  \E call \in BagToSet(inflight), ok \in BOOLEAN :
    /\ call.await = await
    /\ inflight' = inflight (-) SetToBag({call})
    /\ cache' = IF ok THEN cacheSet(cache, call.key, call.fn, DEFAULT_TTL, now)
                ELSE cache
    /\ recency' = IF ok THEN Used(recency, call.key,
                                  cacheSet(cache, call.key, call.fn, DEFAULT_TTL, now))
                  ELSE recency
    /\ UNCHANGED <<pc, now, lastGet, cacheRest>>

PropertiesArrive == Arrive("properties")

SuggestionsArrive == Arrive("suggestions")

\* The times the clock shows: the start, a millisecond later, and both a
\* DEFAULT_TTL later.
Times == {0, 1, DEFAULT_TTL, DEFAULT_TTL + 1}

\* Time passes: a millisecond, or a DEFAULT_TTL.
Tick ==
  \E d \in {1, DEFAULT_TTL} :
    /\ now + d \in Times
    /\ now' = now + d
    /\ UNCHANGED <<pc, cache, inflight, recency, lastGet, cacheRest>>

CacheNext ==
  \/ FetchBySMILES \/ FetchByName \/ Autocomplete \/ CidsArrive
  \/ PropertiesArrive \/ SuggestionsArrive \/ Tick

CacheSpec == CacheInit /\ [][CacheNext]_vars

\* ------------------------------------------- the green score, stepwise

\* The numbers a parameter object carries: percentages inside and outside
\* 0 .. 100, E-factors (even, so that the weighted sum is a whole number of
\* tenths and Math.round has no half to break), NaN, or nothing.
PercentArgs ==
  {Absent} \cup {Numeric(Whole(n)) : n \in {-20, 0, 50, 75, 100, 120}}
  \cup {Numeric(NaNf)}

EFactorArgs ==
  {Absent} \cup {Numeric(Whole(n)) : n \in {-400, -100, 0, 10, 100, 150}}
  \cup {Numeric(PosInf)}

YieldArgs ==
  {Absent} \cup {Numeric(Whole(n)) : n \in {0, 50, 80, 100, 150}}

SolventArgs ==
  {Absent, Text(<<>>), Text(<<" ">>),
   Text(<<"W", "a", "t", "e", "r">>), Text(<<"e", "t", "h", "y", "l", " ", "a", "c", "e", "t", "a", "t", "e">>), Text(<<" ", "t", "o", "l", "u", "e", "n", "e", " ">>),
   Text(<<"D", "C", "M">>), Text(<<"b", "e", "n", "z", "e", "n", "e">>), Text(<<"b", "r", "i", "n", "e">>)}

GreenParams ==
  [atomEconomyPct : PercentArgs, eFact : EFactorArgs, yieldPct : YieldArgs,
   solvent : SolventArgs]

GreenInit ==
  /\ pc = "greenScore"
  /\ smiles = <<>>
  /\ AnalysisIdle /\ FpIdle /\ SimIdle /\ KnnIdle /\ KinIdle /\ RouteIdle /\ CacheIdle /\ RingIdle /\ BracketIdle /\ ReactionIdle
  /\ greenArgs \in GreenParams
  /\ details = <<>>
  /\ greenOut = <<>>

\* greenScore up to 'let solventScore = 50': the three sub-scores.
GreenSubScores ==
  /\ pc = "greenScore"
  /\ details' = [aeScore |-> Percent(OrZero(greenArgs.atomEconomyPct)),
                 efScore |-> EFactorScore(OrZero(greenArgs.eFact)),
                 yScore |-> Percent(OrZero(greenArgs.yieldPct)),
                 solventScore |-> 50]
  /\ pc' = IF Falsy(greenArgs.solvent) THEN "greenGrade" ELSE "classifySolvent"
  /\ UNCHANGED <<greenArgs, greenOut, greenRest>>

\* if (solvent): classifySolvent(solvent) returns and gives solventScore.
GreenSolvent ==
  /\ pc = "classifySolvent"
  /\ ~classifySolvent(greenArgs.solvent).threw
  /\ details' = [details EXCEPT
       !.solventScore = SolventScore(classifySolvent(greenArgs.solvent).score)]
  /\ pc' = "greenGrade"
  /\ UNCHANGED <<greenArgs, greenOut, greenRest>>

\* if (solvent): classifySolvent(solvent) throws, and so does greenScore.
GreenSolventThrows ==
  /\ pc = "classifySolvent"
  /\ classifySolvent(greenArgs.solvent).threw
  /\ pc' = "greenThrew"
  /\ UNCHANGED <<greenArgs, details, greenOut, greenRest>>

\* score, rounded, grade and the return.
GreenReturn ==
  /\ pc = "greenGrade"
  /\ greenOut' = [score |-> Rounded(Weighted(details)),
                  grade |-> Grade(Rounded(Weighted(details)))]
  /\ pc' = "greenReturned"
  /\ UNCHANGED <<greenArgs, details, greenRest>>

GreenNext == GreenSubScores \/ GreenSolvent \/ GreenSolventThrows \/ GreenReturn

GreenSpec == GreenInit /\ [][GreenNext]_vars

\* --------------------------------------- ring bonds of a bond graph

\* The atoms and the bonds of the graphs _findRingBonds is called on.
MaxAtoms == 4

MaxBondCount == 3

\* The ends of a bond among n atoms.  adj is the same whichever end of a
\* bond is its from, so the smaller index is taken as from.
Ends(n) == {e \in (0..(n - 1)) \X (0..(n - 1)) : e[1] <= e[2]}

\* The lists of m bonds among n atoms.
BondLists(n, m) ==
  [1..m -> {[from |-> e[1], to |-> e[2], order |-> 1] : e \in Ends(n)}]

RingInit ==
  /\ pc = "findRingBonds"
  /\ smiles = <<>>
  /\ AnalysisIdle /\ FpIdle /\ SimIdle /\ KnnIdle /\ KinIdle /\ RouteIdle /\ CacheIdle /\ GreenIdle /\ BracketIdle /\ ReactionIdle
  /\ \E n \in 0..MaxAtoms, m \in 0..MaxBondCount :
       \E b \in BondLists(n, m) : graph = [n |-> n, bonds |-> b]
  /\ ringBonds = <<>>

\* _findRingBonds(bonds, n) runs and returns the set ringBonds.
FindRingBonds ==
  /\ pc = "findRingBonds"
  /\ ringBonds' = _findRingBonds(graph.bonds, graph.n)
  /\ pc' = "ringBondsReturned"
  /\ UNCHANGED <<graph, ringRest>>

RingNext == FindRingBonds

RingSpec == RingInit /\ [][RingNext]_vars

\* ------------------------------------- the elements of bracket atoms

\* The longest text between brackets, and the characters it is made of: the
\* letters of known and unknown elements, a hydrogen count, a charge, an
\* isotope digit and a chirality mark.
MaxInner == 3

InnerAlphabet == {"C", "l", "c", "Z", "n", "H", "2", "+", "@"}

Inners == UNION {[1..n -> InnerAlphabet] : n \in 0..MaxInner}

NotResolved == <<"?">>

BracketInit ==
  /\ pc = "resolveElement"
  /\ smiles = <<>>
  /\ AnalysisIdle /\ FpIdle /\ SimIdle /\ KnnIdle /\ KinIdle /\ RouteIdle /\ CacheIdle /\ GreenIdle /\ RingIdle /\ ReactionIdle
  /\ inner \in Inners
  /\ bySymbol = [resolveElement |-> NotResolved, parseBracketAtom |-> NotResolved]

\* resolveElement(token), on the token tokenize pushes for '[' inner ']'
ResolveElement ==
  /\ pc = "resolveElement"
  /\ bySymbol' = [bySymbol EXCEPT
       !.resolveElement = resolveElement(Token("atom", inner, TRUE, 0))]
  /\ pc' = "parseBracketAtom"
  /\ UNCHANGED <<inner, bracketRest>>

\* parseBracketAtom(inner).symbol
ParseBracketAtom ==
  /\ pc = "parseBracketAtom"
  /\ bySymbol' = [bySymbol EXCEPT !.parseBracketAtom = parseBracketAtom(inner).symbol]
  /\ pc' = "resolved"
  /\ UNCHANGED <<inner, bracketRest>>

BracketNext == ResolveElement \/ ParseBracketAtom

BracketSpec == BracketInit /\ [][BracketNext]_vars

\* ------------------------------------- formatting and parsing reactions

\* The most components on a side of a reaction.
MaxComponents == 2

\* Components: non-empty, trimmed, with no '+' and no arrow.
Components == {<<"C", "C", "O">>, <<"[", "N", "a", "]", "C", "l">>, <<"C", "C", "=", "O">>, <<"A", " ", "B">>,
               <<"[", "F", "e", "]">>}

\* Conditions: null, or non-empty, trimmed and without ']'.
Conditions == {NullText, <<"H", "3", "P", "O", "4">>, <<"x", "+", "y">>, <<"a", LongArrow, "b">>, <<"[", "x">>}

ComponentLists == UNION {[1..n -> Components] : n \in 1..MaxComponents}

ReactionInit ==
  /\ pc = "formatReaction"
  /\ smiles = <<>>
  /\ AnalysisIdle /\ FpIdle /\ SimIdle /\ KnnIdle /\ KinIdle /\ RouteIdle /\ CacheIdle /\ GreenIdle /\ RingIdle /\ BracketIdle
  /\ reaction \in [reactants : ComponentLists, products : ComponentLists,
                   conditions : Conditions]
  /\ reactionStr = <<>>
  /\ reparsed = <<>>

\* formatReaction(reaction) returns the string.
FormatReaction ==
  /\ pc = "formatReaction"
  /\ reactionStr' = formatReaction(reaction)
  /\ pc' = "parseReaction"
  /\ UNCHANGED <<reaction, reparsed, reactionRest>>

\* parseReaction(reactionStr) returns the parsed reaction.
ParseReaction ==
  /\ pc = "parseReaction"
  /\ ~parseReaction(reactionStr).threw
  /\ reparsed' = parseReaction(reactionStr)
  /\ pc' = "reactionParsed"
  /\ UNCHANGED <<reaction, reactionStr, reactionRest>>

\* parseReaction(reactionStr) throws.
ParseReactionThrows ==
  /\ pc = "parseReaction"
  /\ parseReaction(reactionStr).threw
  /\ pc' = "reactionThrew"
  /\ UNCHANGED <<reaction, reactionStr, reparsed, reactionRest>>

ReactionNext == FormatReaction \/ ParseReaction \/ ParseReactionThrows

ReactionSpec == ReactionInit /\ [][ReactionNext]_vars

\* ------------------------------------------------------------- properties

\* validate and parseSMILES have returned.
Parsed == pc \notin {"tokenize", "validate", "parse"}

\* How many of the tokens carry the ring label.
LabelCount(toks, label) ==
  Cardinality({k \in 1..Len(toks) : toks[k].type = "ring" /\ toks[k].ring = label})

\* The count of open minus close over the first n characters of s.
RECURSIVE DepthAfter(_, _, _, _)
DepthAfter(s, open, close, n) ==
  IF n = 0 THEN 0
  ELSE DepthAfter(s, open, close, n - 1)
       + (IF s[n] = open THEN 1 ELSE 0) - (IF s[n] = close THEN 1 ELSE 0)

\* The running count of open minus close is never negative and ends at zero.
Balanced(s, open, close) ==
  /\ \A n \in 0..Len(s) : DepthAfter(s, open, close, n) >= 0
  /\ DepthAfter(s, open, close, Len(s)) = 0

\* The conditions under which a notation is to be accepted, on the tokens the
\* tokenizer pushed.
WellFormed ==
  /\ Len(smiles) > 0
  /\ Balanced(smiles, "(", ")")
  /\ Balanced(smiles, "[", "]")
  /\ \A k \in 1..Len(tokens) :
       tokens[k].type = "ring" => LabelCount(tokens, tokens[k].ring) % 2 = 0
  /\ \E k \in 1..Len(tokens) : tokens[k].type = "atom"

\* C1: validate(s) returns valid = true exactly when s is non-empty, its
\* parentheses and its brackets balance (running depth never negative, zero
\* at the end), every ring label among its tokens occurs an even number of
\* times and there is an atom token; otherwise it returns valid = false with
\* a reason, as it does for a value that is not a string.
ValidateIffWellFormed ==
  /\ pc \notin {"tokenize", "validate"} =>
       /\ vres.valid <=> WellFormed
       /\ ~vres.valid => vres.error # ""
  /\ ~validate(FALSE, smiles).valid
  /\ validate(FALSE, smiles).error # ""

\* A notation with a branch and a paired ring label has been accepted.
ValidateAcceptedRing ==
  /\ pc = "done" /\ vres.valid
  /\ \E k \in 1..Len(tokens) : tokens[k].type = "ring"
  /\ \E k \in 1..Len(tokens) : tokens[k].type = "branch_open"

\* C2: every bond parseSMILES returns for a notation validate accepts has
\* from and to among the indices 0 .. atoms.length - 1.
BondIndicesValid ==
  (Parsed /\ vres.valid) =>
    \A k \in 1..Len(bonds) :
      /\ bonds[k].from \in 0..(Len(atoms) - 1)
      /\ bonds[k].to \in 0..(Len(atoms) - 1)

\* One iteration of either loop: the position moves forward by at least one
\* character.
LoopAdvances ==
  /\ (pc = "tokenize" /\ tokIter' # tokIter) => tokI' > tokI
  /\ (pc = "parse" /\ parseIter' # parseIter) => i' > i

\* The branches of the two loop bodies.
TokKinds ==
  {"branch_open", "branch_close", "bond", "ring", "ring_percent", "bracket",
   "two_letter", "single_letter", "skip"}

ParseKinds == TokKinds \cup {"stereo", "dot"}

\* Neither loop has run past the end of the string or raised an error, and
\* while characters remain one branch of the loop body applies to the next.
NoOverrun ==
  /\ tokI <= Len(smiles) /\ tokIter <= tokI
  /\ i <= Len(smiles) /\ parseIter <= i
  /\ ~threw
  /\ (pc = "tokenize" /\ tokI < Len(smiles)) => TokKind(smiles, tokI) \in TokKinds
  /\ (pc = "parse" /\ i < Len(smiles)) => ParseKind(smiles, i) \in ParseKinds
  /\ pc = "parse" => vres.error # "(not run)"

\* C3: tokenize, validate and parseSMILES return a value for every string
\* without raising an error: each loop iteration consumes at least one
\* character and none raises an error, so each loop ends within Len(smiles)
\* iterations whatever the characters are, and validate has returned a
\* result by the time parseSMILES starts.
ParsingTerminates == []NoOverrun /\ [][LoopAdvances]_vars

\* The three calls have returned for a notation with an unknown element, an
\* unmatched ')', an unrecognised character and an unclosed '['.
MalformedParsed ==
  /\ Parsed /\ smiles = malformed
  /\ tokIter > 0 /\ parseIter > 0
  /\ ~vres.valid /\ Len(atoms) = 2

\* The notation holds the character ch.
Has(ch) == \E k \in 1..Len(smiles) : smiles[k] = ch

\* The atom tokens the tokenizer pushed, in order: the k-th one is the text of
\* the k-th atom of the graph.
AtomTokens == SelectSeq(tokens, LAMBDA tok : tok.type = "atom")

\* Every bond of the graph joins two different atoms of the graph.
BondEndsAreAtoms ==
  \A k \in 1..Len(bonds) :
    /\ bonds[k].from \in 0..(Len(atoms) - 1)
    /\ bonds[k].to \in 0..(Len(atoms) - 1)
    /\ bonds[k].from # bonds[k].to

\* The valence table of the implicit-hydrogen rule.
Valence ==
  [x \in {<<"C">>, <<"N">>, <<"O">>, <<"S">>, <<"P">>, <<"F">>, <<"C", "l">>,
          <<"B", "r">>, <<"I">>} |->
     CASE x = <<"C">> -> 4
       [] x \in {<<"N">>, <<"P">>} -> 3
       [] x \in {<<"O">>, <<"S">>} -> 2
       [] OTHER -> 1]

\* The rule itself: max(0, v - a - s), 0 for an element outside the table.
RuleH(symbol, aromatic, s) ==
  IF symbol \notin DOMAIN Valence THEN 0
  ELSE LET h == Valence[symbol] - (IF aromatic THEN 1 ELSE 0) - s
       IN IF h > 0 THEN h ELSE 0

\* The sum of the orders of the bonds of the graph at atom a (from 0), a bond
\* from an atom to itself counted at both of its ends.
OrdersAt(a) ==
  SumSeq([k \in 1..Len(bonds) |->
            (IF bonds[k].from = a THEN bonds[k].order ELSE 0)
            + (IF bonds[k].to = a THEN bonds[k].order ELSE 0)])

\* The hydrogens the rule gives the atoms of the graph.
GraphH ==
  SumSeq([a \in 1..Len(atoms) |->
            RuleH(atoms[a].symbol, atoms[a].aromatic, OrdersAt(a - 1))])

\* How many atoms of the graph are of the element.
AtomsOf(element) == Cardinality({a \in 1..Len(atoms) : atoms[a].symbol = element})

\* C4: for a notation validate accepts, with no bracket atom and no '.',
\* atomCount maps every element to the number of its atoms and H to the sum
\* over the atoms of max(0, effective valence - sum of the orders of the
\* graph's bonds at the atom), with no H key when that sum is 0; ethanol
\* gives {C:2, O:1, H:6}.
AtomCountMatchesGraph ==
  /\ (pc = "done" /\ vres.valid /\ ~Has("[") /\ ~Has(".") /\ BondEndsAreAtoms) =>
       /\ ~counts.threw
       /\ DOMAIN counts.value.counts =
            {atoms[a].symbol : a \in 1..Len(atoms)}
              \cup (IF GraphH > 0 THEN {<<"H">>} ELSE {})
       /\ \A el \in DOMAIN counts.value.counts :
            counts.value.counts[el] =
              AtomsOf(el) + (IF el = <<"H">> THEN GraphH ELSE 0)
  /\ (pc = "done" /\ smiles = ethanol) =>
       counts.value.counts = (<<"C">> :> 2) @@ (<<"O">> :> 1) @@ (<<"H">> :> 6)

\* The hydrogen count written in a bracket atom's text: the number after its
\* first H, 1 for an H with no number, 0 with no H.
RECURSIVE WrittenH(_)
WrittenH(text) ==
  IF Len(text) = 0 THEN 0
  ELSE IF text[1] # "H" THEN WrittenH(Tail(text))
  ELSE IF Len(text) >= 2 /\ IsDigit(text[2])
       THEN IF Len(text) >= 3 /\ IsDigit(text[3])
            THEN 10 * DigitVal(text[2]) + DigitVal(text[3])
            ELSE DigitVal(text[2])
       ELSE 1

\* Every atom of the notation is a bracket atom.
AllBracketAtoms ==
  /\ Len(AtomTokens) = Len(atoms)
  /\ \A a \in 1..Len(AtomTokens) : AtomTokens[a].bracket

\* C5: a bracket atom contributes to every descriptor that counts hydrogens
\* exactly the hydrogen count written in its brackets.  For a notation made
\* of bracket atoms: atomCount's H is the written counts (with the atoms of
\* hydrogen itself), molecularWeight adds 1.008 per written hydrogen, and
\* countHBD counts the N and O atoms with a written hydrogen.
BracketHydrogensAsWritten ==
  (pc = "done" /\ vres.valid /\ AllBracketAtoms /\ BondEndsAreAtoms) =>
    LET n == Len(atoms)
        written == [a \in 1..n |-> WrittenH(AtomTokens[a].value)]
        hydrogens == SumSeq(written) + AtomsOf(<<"H">>)
    IN /\ ~counts.threw
       /\ IF hydrogens = 0 THEN <<"H">> \notin DOMAIN counts.value.counts
          ELSE counts.value.counts[<<"H">>] = hydrogens
       /\ ~weight.threw
       /\ weight.value.mw =
            SumSeq([a \in 1..n |->
                      ATOMIC_WEIGHTS(atoms[a].symbol) + written[a] * 1008])
       /\ donors.value =
            Cardinality({a \in 1..n :
                           atoms[a].symbol \in {<<"O">>, <<"N">>} /\ written[a] > 0})

\* The largest bond-order sum the rule is tabulated for.
MaxBondSum == 7

\* Elements of the valence table and elements outside it.
ElementSymbols ==
  DOMAIN Valence \cup {<<"H">>, <<"B">>, <<"X">>, <<"S", "i">>, <<"N", "a">>}

\* The three copies of the rule return what the rule gives.
CopiesGive(symbol, aromatic, s) ==
  /\ implicitHydrogens(symbol, s, aromatic) = RuleH(symbol, aromatic, s)
  /\ _implicitH(symbol, aromatic, s) = RuleH(symbol, aromatic, s)
  /\ mwImplicitH(symbol, aromatic, s) = RuleH(symbol, aromatic, s)

\* C6: implicitHydrogens, _implicitH and the rule inline in molecularWeight
\* all return max(0, v - a - s), v the element's valence (C 4, N 3, O 2, S 2,
\* P 3, F, Cl, Br, I 1), a = 1 for an aromatic atom, s the bond-order sum,
\* and 0 for an element outside the table: once the descriptors have run,
\* for every tabulated argument and for every atom of the graph.
ImplicitHydrogenRule ==
  pc = "done" =>
    /\ \A symbol \in ElementSymbols : \A aromatic \in BOOLEAN : \A s \in 0..MaxBondSum :
         CopiesGive(symbol, aromatic, s)
    /\ \A a \in 1..Len(atoms) :
         CopiesGive(atoms[a].symbol, atoms[a].aromatic, OrdersAt(a - 1))

\* The descriptors have run on a notation whose aromatic carbon is bonded
\* beyond its valence: the rule is cut off at 0 and the weight holds no
\* hydrogen.
RuleCutOffAtZero ==
  /\ pc = "done" /\ smiles = overBonded
  /\ atoms[2].aromatic /\ OrdersAt(1) = 6
  /\ weight.value.mw = 15999 + 12011 + 32065
  /\ counts.value.counts = (<<"O">> :> 1) @@ (<<"C">> :> 1) @@ (<<"S">> :> 1)

\* The position of a letter in the alphabet, whatever its case.
LetterRank(c) == PosIn(UpperLetters, toUpperCase(c))

\* Alphabetical order of two names made of letters.
RECURSIVE Alphabetical(_, _)
Alphabetical(a, b) ==
  IF Len(b) = 0 THEN FALSE
  ELSE IF Len(a) = 0 THEN TRUE
  ELSE IF LetterRank(a[1]) # LetterRank(b[1]) THEN LetterRank(a[1]) < LetterRank(b[1])
  ELSE Alphabetical(Tail(a), Tail(b))

\* Hill order on the keys: with carbon present C, then H, then the others
\* alphabetically; without carbon all alphabetically.
HillBefore(a, b, keys) ==
  LET rank(x) == IF <<"C">> \notin keys THEN 2
                 ELSE IF x = <<"C">> THEN 0 ELSE IF x = <<"H">> THEN 1 ELSE 2
  IN rank(a) < rank(b) \/ (rank(a) = rank(b) /\ Alphabetical(a, b))

\* The keys in Hill order.
HillOrder(keys) ==
  [k \in 1..Cardinality(keys) |->
     CHOOSE el \in keys : Cardinality({x \in keys : HillBefore(x, el, keys)}) = k - 1]

\* An element's part of the formula: its symbol, and its count if above 1.
HillPart(el, n) ==
  el \o (IF n = 1 THEN <<>>
         ELSE IF n < 10 THEN <<Digits[n + 1]>>
         ELSE <<Digits[(n \div 10) + 1], Digits[(n % 10) + 1]>>)

RECURSIVE Concat(_)
Concat(parts) == IF Len(parts) = 0 THEN <<>> ELSE parts[1] \o Concat(Tail(parts))

\* The formula of a tally in Hill order.
HillFormula(c) ==
  Concat([k \in 1..Cardinality(DOMAIN c) |->
            HillPart(HillOrder(DOMAIN c)[k], c[HillOrder(DOMAIN c)[k]])])

\* Every key of the tally is a name made of letters.
NamesOnly(c) == \A el \in DOMAIN c : \A k \in 1..Len(el) : IsLetter(el[k])

\* C7: molecularFormula lists every element of atomCount's tally once, each
\* followed by its count when that is above 1, in Hill order (C, then H, then
\* the rest alphabetically; all alphabetically when there is no carbon);
\* aspirin gives C9H8O4 and benzene C6H6.
FormulaInHillOrder ==
  /\ (formula.called /\ ~counts.threw /\ NamesOnly(counts.value.counts)) =>
       /\ ~formula.threw
       /\ formula.value.formula = HillFormula(counts.value.counts)
  /\ (formula.called /\ smiles = aspirin) =>
       formula.value.formula = <<"C", "9", "H", "8", "O", "4">>
  /\ (formula.called /\ smiles = benzene) =>
       formula.value.formula = <<"C", "6", "H", "6">>

\* The formula of a tally with carbon, hydrogen and two other elements, one
\* of them before carbon in the alphabet.
FormulaWithBromine ==
  /\ pc = "done" /\ smiles = bromochloromethane
  /\ formula.value.formula = <<"C", "H", "2", "B", "r", "C", "l">>

\* C8: molecularWeight, in thousandths, is the sum over the atoms of the
\* graph of the element's atomic weight (0 for an element the table lacks)
\* plus 1.008 for each hydrogen the rule gives the atom, for every notation
\* validate accepts; 'O' gives 18.015 and 'C' gives 16.043.
WeightIsAtomSum ==
  /\ (pc = "done" /\ vres.valid) =>
       /\ ~weight.threw
       /\ weight.value.mw =
            SumSeq([a \in 1..Len(atoms) |->
                      ATOMIC_WEIGHTS(atoms[a].symbol)
                      + RuleH(atoms[a].symbol, atoms[a].aromatic, OrdersAt(a - 1)) * 1008])
  /\ (pc = "done" /\ smiles = water) => weight.value.mw = 18015
  /\ (pc = "done" /\ smiles = methane) => weight.value.mw = 16043

\* The tally a bond of the graph belongs to by the symbol it was written
\* with: '=' double, '#' triple, ':' aromatic, '-' single, and with no symbol
\* aromatic between two aromatic atoms and single otherwise.
BondClass(k) ==
  CASE bondSyms[k] = "=" -> "double"
    [] bondSyms[k] = "#" -> "triple"
    [] bondSyms[k] = ":" -> "aromatic"
    [] bondSyms[k] = "-" -> "single"
    [] OTHER -> IF atoms[bonds[k].from + 1].aromatic /\ atoms[bonds[k].to + 1].aromatic
                THEN "aromatic" ELSE "single"

BondsOfClass(class) == Cardinality({k \in 1..Len(bonds) : BondClass(k) = class})

\* C9: bondCount puts every bond of the molecule into exactly one tally:
\* '=' double, '#' triple, ':' aromatic, no symbol aromatic when both ends
\* are aromatic atoms (bracketed ones included) and single otherwise, an
\* explicit '-' single even between aromatic atoms; 'C=C' gives double 1 and
\* single 0.
BondCountClassifies ==
  /\ (pc = "done" /\ vres.valid /\ BondEndsAreAtoms /\ ~Has(".")) =>
       /\ ~bondTally.threw
       /\ \A class \in {"single", "double", "triple", "aromatic"} :
            bondTally.value.result[class] = BondsOfClass(class)
  /\ (pc = "done" /\ smiles = ethene) =>
       bondTally.value.result.double = 1 /\ bondTally.value.result.single = 0

\* The atoms joined to atom a by the bonds of the graph other than bond k,
\* in at most n steps.
RECURSIVE ReachWithout(_, _, _)
ReachWithout(k, a, n) ==
  IF n = 0 THEN {a}
  ELSE LET near == ReachWithout(k, a, n - 1)
       IN near \cup {bonds[j].to : j \in {x \in 1..Len(bonds) :
                                           x # k /\ bonds[x].from \in near}}
               \cup {bonds[j].from : j \in {x \in 1..Len(bonds) :
                                             x # k /\ bonds[x].to \in near}}

\* Bond k lies on a ring: its ends stay joined when it is taken away.
OnRing(k) == bonds[k].to \in ReachWithout(k, bonds[k].from, Len(atoms))

\* The number of bonds at atom a.
BondsAt(a) ==
  Cardinality({k \in 1..Len(bonds) : bonds[k].from = a \/ bonds[k].to = a})

\* C10: countRotatableBonds is the number of bonds of the graph of order 1
\* that are on no ring and whose two ends each have more than one bond, for
\* every notation validate accepts; butane gives 1, benzene 0, aspirin 3.
RotatableBondsCounted ==
  /\ (pc = "done" /\ vres.valid) =>
       /\ ~rotatable.threw
       /\ rotatable.value.count =
            Cardinality({k \in 1..Len(bonds) :
                           /\ bonds[k].order = 1
                           /\ ~OnRing(k)
                           /\ BondsAt(bonds[k].from) > 1
                           /\ BondsAt(bonds[k].to) > 1})
  /\ (pc = "done" /\ smiles = butane) => rotatable.value.count = 1
  /\ (pc = "done" /\ smiles = benzene) => rotatable.value.count = 0
  /\ (pc = "done" /\ smiles = aspirin) => rotatable.value.count = 3

\* The hydrogen count of atom a (from 1) of the graph: the count written in
\* its brackets for a bracket atom, the rule's count for any other atom.
HydrogensOf(a) ==
  IF AtomTokens[a].bracket THEN WrittenH(AtomTokens[a].value)
  ELSE RuleH(atoms[a].symbol, atoms[a].aromatic, OrdersAt(a - 1))

\* The oxygen and nitrogen atoms of the graph.
PolarAtoms == {a \in 1..Len(atoms) : atoms[a].symbol \in {<<"O">>, <<"N">>}}

\* C11: countHBA is the number of oxygen or nitrogen atoms and countHBD the
\* number of oxygen or nitrogen atoms whose hydrogen count, implicit or
\* written, is greater than 0, each counted once; countHBD <= countHBA for
\* every notation; aspirin gives 1 and 4, ethanol 1 and 1, benzene 0 donors.
DonorsAndAcceptorsCounted ==
  pc = "done" =>
    /\ acceptors.value = Cardinality(PolarAtoms)
    /\ donors.value <= acceptors.value
    /\ (vres.valid /\ Len(AtomTokens) = Len(atoms) /\ BondEndsAreAtoms) =>
         donors.value = Cardinality({a \in PolarAtoms : HydrogensOf(a) > 0})
    /\ (smiles = aspirin) => (donors.value = 1 /\ acceptors.value = 4)
    /\ (smiles = ethanol) => (donors.value = 1 /\ acceptors.value = 1)
    /\ (smiles = benzene) => donors.value = 0

\* The number of bond ends of the graph at atom a (from 0).
EndsAt(a) ==
  Cardinality({k \in 1..Len(bonds) : bonds[k].from = a})
  + Cardinality({k \in 1..Len(bonds) : bonds[k].to = a})

\* The surface contributions by atom type, in hundredths.
AtomTypeArea ==
  [hydroxyl |-> 2023, carbonyl |-> 1707, aromaticO |-> 1314, ether |-> 923,
   pyrroleN |-> 1579, pyridineN |-> 1289, primaryN |-> 2602, secondaryN |-> 1707,
   tertiaryN |-> 324, thiol |-> 3880, sulfide |-> 2530, phosphorus |-> 4074,
   apolar |-> 0]

\* The atom type of an atom from its element, aromatic flag, degree and
\* implicit-hydrogen count.
AtomType(symbol, aromatic, deg, h) ==
  CASE symbol = <<"O">> /\ h > 0 -> "hydroxyl"
    [] symbol = <<"O">> /\ h = 0 /\ deg <= 1 -> "carbonyl"
    [] symbol = <<"O">> /\ h = 0 /\ deg > 1 /\ aromatic -> "aromaticO"
    [] symbol = <<"O">> /\ h = 0 /\ deg > 1 /\ ~aromatic -> "ether"
    [] symbol = <<"N">> /\ aromatic /\ h > 0 -> "pyrroleN"
    [] symbol = <<"N">> /\ aromatic /\ h = 0 -> "pyridineN"
    [] symbol = <<"N">> /\ ~aromatic /\ h >= 2 -> "primaryN"
    [] symbol = <<"N">> /\ ~aromatic /\ h = 1 -> "secondaryN"
    [] symbol = <<"N">> /\ ~aromatic /\ h = 0 -> "tertiaryN"
    [] symbol = <<"S">> /\ h > 0 -> "thiol"
    [] symbol = <<"S">> /\ h = 0 -> "sulfide"
    [] symbol = <<"P">> -> "phosphorus"
    [] OTHER -> "apolar"

\* The sum over the atoms of the graph of their contributions, in hundredths.
GraphArea ==
  SumSeq([a \in 1..Len(atoms) |->
            AtomTypeArea[AtomType(atoms[a].symbol, atoms[a].aromatic, EndsAt(a - 1),
                                  RuleH(atoms[a].symbol, atoms[a].aromatic,
                                        OrdersAt(a - 1)))]])

\* C12: estimateTPSA is the sum over the atoms of the contribution selected
\* by element, aromatic flag, degree and implicit-hydrogen count, rounded to
\* one decimal (the tenth nearest the sum); a molecule with no O, N, S or P
\* atom has TPSA exactly 0, as benzene has, and aspirin gives 63.6.
TPSAIsContributionSum ==
  pc = "done" =>
    /\ 10 * tpsa.value - GraphArea \in -5..5
    /\ (\A a \in 1..Len(atoms) :
          atoms[a].symbol \notin {<<"O">>, <<"N">>, <<"S">>, <<"P">>}) => tpsa.value = 0
    /\ (smiles = benzene) => tpsa.value = 0
    /\ (smiles = aspirin) => tpsa.value = 636

\* estimateTPSA has returned 63.6 for aspirin: a carboxyl OH, two carbonyl
\* oxygens and an ester oxygen, the carbons contributing nothing.
AspirinArea ==
  /\ pc = "done" /\ smiles = aspirin
  /\ tpsa.called /\ tpsa.value = 636
  /\ GraphArea = 2023 + 1707 + 1707 + 923

\* The positions (from 0) of the entries of the vector that are 1.
BitsOf(v) == {b \in 0..(Len(v) - 1) : v[b + 1] = 1}

\* The bits of the identifiers ids: identifier mod n, no bit when n is 0.
BitsOfIds(ids, n) ==
  IF n = 0 THEN {} ELSE {WordMod(ids[a], n) : a \in 1..Len(ids)}

\* The vector returned is the union of the bits of the levels 0..radius.
UnionOfLevels ==
  /\ Len(idHistory) = radius + 1
  /\ Len(fp) = nBits
  /\ \A b \in 1..Len(fp) : fp[b] \in {0, 1}
  /\ BitsOf(fp) = UNION {BitsOfIds(idHistory[l], nBits) : l \in 1..Len(idHistory)}

\* The bits set at every smaller radius are set at this one.
RadiusMonotone ==
  \A r1 \in 0..radius :
    BitsOf(morganFingerprint(smiles, r1, nBits).fp) \subseteq BitsOf(fp)

\* No step of morganFingerprint clears a bit.
BitsKept ==
  (pc = "morganRadii") => \A b \in 1..Len(fp) : fp[b] = 1 => fp'[b] = 1

\* C13: morganFingerprint returns a vector of exactly nBits entries, each 0
\* or 1, whose set bits are the union over the levels 0..radius of the bits
\* (identifier mod nBits); no bit set at a level is cleared later, the bits
\* set at a radius r1 are set at any radius r2 >= r1, and at least one bit is
\* set whenever the molecule has an atom.
FingerprintIsUnionOfLevels ==
  /\ [](pc # "morganThrew")
  /\ [](pc = "morganReturned" =>
          /\ UnionOfLevels
          /\ RadiusMonotone
          /\ (Len(parseSMILES(smiles).atoms) > 0 => BitsOf(fp) # {}))
  /\ [][BitsKept]_vars

\* The positions set in both vectors and in either.
SetInBoth == BitsOf(fp1) \cap BitsOf(fp2)

SetInEither == BitsOf(fp1) \cup BitsOf(fp2)

\* The similarity returned is the number 1.
IsOne(x) == x.num = x.den

\* C14: for two binary vectors of the same length tanimotoSimilarity is
\* (positions set in both) / (positions set in either), and 0 when no
\* position is set in either; it lies in [0, 1], is the same for (b, a), and
\* is 1 exactly when the two have the same set positions and at least one
\* is set, so the fingerprints of two identical notations with an atom have
\* similarity exactly 1.
TanimotoIsRatio ==
  (pc = "tanimotoReturned" /\ Len(fp1) = Len(fp2)) =>
    /\ similarity.den > 0
    /\ IF SetInEither = {} THEN similarity.num = 0
       ELSE similarity.num * Cardinality(SetInEither)
              = Cardinality(SetInBoth) * similarity.den
    /\ 0 <= similarity.num /\ similarity.num <= similarity.den
    /\ similarity = tanimotoSimilarity(fp2, fp1)
    /\ IsOne(similarity) <=> (BitsOf(fp1) = BitsOf(fp2) /\ BitsOf(fp1) # {})
    /\ (/\ smiles \in Compared
        /\ Len(parseSMILES(smiles).atoms) > 0
        /\ fp2 = DefaultFingerprint(smiles)) => IsOne(similarity)

\* tanimotoSimilarity has returned 1 for the fingerprints of ethanol and of
\* ethanol, after a loop over all 128 positions.
EthanolWithItself ==
  /\ pc = "tanimotoReturned" /\ smiles = ethanol
  /\ fp1 = DefaultFingerprint(ethanol) /\ fp2 = fp1
  /\ tanI = 128 /\ andCount = orCount /\ orCount > 0
  /\ similarity = Quotient(1, 1)

\* The position in the database of the entry with the id.
EntryOf(id) == CHOOSE e \in 1..Len(database) : database[e].id = id

\* The similarity x is (positions set in both) / (positions set in either)
\* of the query and the vector v, 0 when none is set.
IsSimilarityTo(x, v) ==
  /\ x.den > 0
  /\ IF BitsOf(queryFp) \cup BitsOf(v) = {} THEN x.num = 0
     ELSE x.num * Cardinality(BitsOf(queryFp) \cup BitsOf(v))
            = Cardinality(BitsOf(queryFp) \cap BitsOf(v)) * x.den

\* The ids of the entries returned.
Returned == {neighbours[j].id : j \in 1..Len(neighbours)}

\* min(k, database.length) entries of the database, each once, each with the
\* similarity of its fingerprint to the query.
KnnEntries ==
  /\ Len(neighbours) = Min(kArg, Len(database))
  /\ \A j \in 1..Len(neighbours) :
       /\ \E e \in 1..Len(database) : database[e].id = neighbours[j].id
       /\ IsSimilarityTo(neighbours[j].similarity,
                         database[EntryOf(neighbours[j].id)].fingerprint)
  /\ Cardinality(Returned) = Len(neighbours)

\* Non-increasing similarity, equal similarities in database order, and no
\* omitted entry more similar than a returned one.
KnnRanked ==
  /\ \A j1, j2 \in 1..Len(neighbours) :
       j1 < j2 =>
         /\ ~SimLess(neighbours[j1].similarity, neighbours[j2].similarity)
         /\ (neighbours[j1].similarity = neighbours[j2].similarity) =>
              EntryOf(neighbours[j1].id) < EntryOf(neighbours[j2].id)
  /\ \A e \in 1..Len(database) :
       database[e].id \notin Returned =>
         \A j \in 1..Len(neighbours) :
           ~SimLess(neighbours[j].similarity,
                    tanimotoSimilarity(queryFp, database[e].fingerprint))

\* The entries of the database whose fingerprint is the query.
Matches == {e \in 1..Len(database) : database[e].fingerprint = queryFp}

\* The entry e is returned with similarity 1 and nothing less similar
\* before it.
ReturnedFirst(e) ==
  \E j \in 1..Len(neighbours) :
    /\ neighbours[j].id = database[e].id
    /\ IsOne(neighbours[j].similarity)
    /\ \A j1 \in 1..(j - 1) :
         ~SimLess(neighbours[j1].similarity, neighbours[j].similarity)

\* knnSearch never assigns to the database array or to its entries.
DatabaseKept == database' = database

\* C15 as stated: knnSearch returns exactly min(k, database.length) entries,
\* each with the Tanimoto similarity of its fingerprint to the query, in
\* non-increasing order, ties in database order; no omitted entry is more
\* similar than a returned one; the database is unchanged; and every entry
\* whose fingerprint equals a non-empty query is returned with similarity 1,
\* no entry of lower similarity before it.
KnnReturnsEveryMatch ==
  /\ [](pc = "knnReturned" =>
          /\ KnnEntries
          /\ KnnRanked
          /\ (BitsOf(queryFp) # {}) => \A e \in Matches : ReturnedFirst(e))
  /\ [][DatabaseKept]_vars

\* C15 amended: as stated, except that an entry whose fingerprint equals a
\* non-empty query is returned (with similarity 1, nothing less similar
\* before it) when fewer than k such entries come before it in the
\* database, and is not returned otherwise.
KnnReturnsFirstMatches ==
  /\ [](pc = "knnReturned" =>
          /\ KnnEntries
          /\ KnnRanked
          /\ (BitsOf(queryFp) # {}) =>
               \A e \in Matches :
                 IF Cardinality({e1 \in Matches : e1 < e}) < kArg
                 THEN ReturnedFirst(e)
                 ELSE database[e].id \notin Returned)
  /\ [][DatabaseKept]_vars

\* knnSearch has returned the two nearest of three fingerprints to the
\* fingerprint of ethanol: ethanol itself first, with similarity 1.
EthanolNearest ==
  /\ pc = "knnReturned"
  /\ kArg = 2 /\ Len(queryFp) = 128
  /\ Len(database) = 3 /\ database[1].id = "ethanol"
  /\ database[1].fingerprint = queryFp
  /\ Len(neighbours) = 2
  /\ neighbours[1].id = "ethanol" /\ IsOne(neighbours[1].similarity)
  /\ SimLess(neighbours[2].similarity, neighbours[1].similarity)

\* ---- C17

\* The first sample is at time 0 with conversion 0.
StartsAtZero(samples) ==
  /\ Len(samples) >= 1
  /\ IsFinite(samples[1].time) /\ samples[1].time.num = 0
  /\ samples[1].conversion = Whole(0)

\* C17: for every steps and totalTime the POST /simulate/kinetics route
\* lets through, runKineticsODE returns, and what it returns is steps + 1
\* samples of which the first is at time 0 with conversion 0.
KineticsReturnsSamples ==
  /\ <>(pc = "kineticsReturned")
  /\ [](pc = "kineticsReturned" =>
          /\ IsFinite(params.steps)
          /\ Len(data) * params.steps.den = params.steps.num + params.steps.den
          /\ StartsAtZero(data))

\* ---- C16

\* The field holds a string of more than 1000 characters.
TooLong(v) == v.kind = "string" /\ Len(v.text) > MAX_SMILES_LENGTH

IsRequestFor(req, method, path) == req.method = method /\ req.path = path

\* The request is one whose handler hands a notation of more than 1000
\* characters to the core, were it not to check the length: the smiles of
\* the properties and the fingerprint routes, the smiles of the risk route
\* when no embedding comes with it, smiles1 or smiles2 of the similarity
\* route.
HandsLongSmiles(req) ==
  \/ /\ \/ IsRequestFor(req, "GET", <<"api", "molecule", "properties">>)
        \/ IsRequestFor(req, "GET", <<"api", "molecule", "fingerprint">>)
     /\ TooLong(req.smiles)
  \/ /\ IsRequestFor(req, "POST", <<"api", "molecule", "risk">>)
     /\ TooLong(req.smiles) /\ Falsy(req.embedding)
  \/ /\ IsRequestFor(req, "GET", <<"api", "molecule", "similarity">>)
     /\ TooLong(req.smiles1) \/ TooLong(req.smiles2)

\* C16: a request to a molecule route with a notation of more than 1000
\* characters is answered 400 and no core function is called for it.
LongSmilesRejected ==
  (pc # "request" /\ HandsLongSmiles(request)) =>
    (response = 400 /\ coreCalls = <<>>)

\* ---- C20

\* C20: a request with the method and the path of an endpoint of the
\* README's API reference reaches a route handler.
ListedEndpointsHandled ==
  (pc # "request" /\ <<request.method, request.path>> \in README_ENDPOINTS) =>
    handler # "none"

\* ---- C18

\* The keys of a Map.
Keys(map) == {map[k].key : k \in 1..Len(map)}

\* C18: whenever a step inserts a new key into a full cache, exactly one
\* entry is removed, and it is the entry whose most recent use (a cacheGet
\* hit or a cacheSet of its key) is the oldest.
EvictsLeastRecentlyUsed ==
  [][(Len(cache) >= MAX_CACHE_SIZE /\ Keys(cache') \ Keys(cache) # {}) =>
       /\ Cardinality(Keys(cache) \ Keys(cache')) = 1
       /\ Keys(cache) \ Keys(cache') = {recency[1]}]_vars

\* ---- C19

\* A call that starts and goes on to its request made a cacheGet of its key
\* that missed: if the entry of the key was older than its TTL, the entry is
\* deleted and the miss is one for a stale entry.
StaleIsDeleted ==
  \A call \in BagToSet(inflight') :
    (/\ CopiesIn(call, inflight') > CopiesIn(call, inflight)
     /\ call.await # "properties"
     /\ MapHas(cache, call.key)
     /\ now - MapGet(cache, call.key).ts > MapGet(cache, call.key).ttl)
      => (~MapHas(cache', call.key) /\ lastGet'.stale /\ ~lastGet'.hit)

\* C19: the cache never holds more than MAX_CACHE_SIZE entries; cacheGet
\* never returns a value whose age exceeds its TTL: it deletes such an entry
\* and reports a miss.
CacheBoundedAndFresh ==
  /\ [](Len(cache) <= MAX_CACHE_SIZE)
  /\ [](lastGet.hit => lastGet.age <= lastGet.ttl)
  /\ [][StaleIsDeleted]_vars

\* The cache is full, and the latest cacheGet found an entry past its TTL
\* and reported a miss.
FullCacheAfterStaleMiss ==
  /\ Len(cache) = MAX_CACHE_SIZE
  /\ lastGet.stale /\ lastGet.age > lastGet.ttl

\* The score is a number from 0 to 100.
InRange(score) ==
  IsFinite(score) /\ ~Less(score, Whole(0)) /\ ~Less(Whole(100), score)

\* The letter the grade scale gives a score: that of the highest threshold
\* the score reaches.
GradeScale == <<[least |-> 80, letter |-> "A"], [least |-> 60, letter |-> "B"],
                [least |-> 40, letter |-> "C"], [least |-> 20, letter |-> "D"]>>

Graded(score, grade) ==
  IF \E k \in 1..Len(GradeScale) : AtLeast(score, GradeScale[k].least)
    THEN \E k \in 1..Len(GradeScale) :
           /\ AtLeast(score, GradeScale[k].least)
           /\ \A j \in 1..(k - 1) : ~AtLeast(score, GradeScale[j].least)
           /\ grade = GradeScale[k].letter
    ELSE grade = "F"

\* C21: for every parameter object greenScore returns, its score is within
\* 0 .. 100 and its grade is the letter the scale A >= 80, B >= 60, C >= 40,
\* D >= 20, F gives that score.
GreenScoreGraded ==
  /\ pc # "greenThrew"
  /\ pc = "greenReturned" =>
       InRange(greenOut.score) /\ Graded(greenOut.score, greenOut.grade)

\* C22: for every string validate accepts, parseSMILES never pops its branch
\* stack while the stack is empty, and when the parse ends its branch stack
\* and its ring-closure label map are both empty.
BranchStackAndRingsBalanced ==
  vres.valid =>
    /\ ParseAt("branch_close") => branchStack # <<>>
    /\ Parsed => branchStack = <<>> /\ ringOpenings = <<>>

\* The iteration of parseSMILES's loop about to run reads a ring label.
AtRingLabel ==
  pc = "parse" /\ ~threw /\ i < Len(smiles)
  /\ ParseKind(smiles, i) \in {"ring", "ring_percent"}

\* The label it reads: the digit, or the number after '%'.
LabelRead ==
  IF IsDigit(At(smiles, i)) THEN DigitVal(At(smiles, i))
  ELSE parseInt2(substring(smiles, i + 1, i + 3))

\* The open labels other than label are as they were.
OthersKept(label) ==
  \A e \in {ringOpenings[k] : k \in 1..Len(ringOpenings)} :
    e.key # label => MapHas(ringOpenings', e.key) /\ MapGet(ringOpenings', e.key) = e.val

\* The label was not open: it is opened at the current atom, no bond is added.
LabelOpened(label) ==
  /\ MapHas(ringOpenings', label)
  /\ MapGet(ringOpenings', label) = prevAtomIdx
  /\ Len(ringOpenings') = Len(ringOpenings) + 1
  /\ bonds' = bonds
  /\ ringCount' = ringCount

\* The label was open: one bond from the opening atom to the current atom,
\* the label no longer open, one more ring.
LabelClosed(label) ==
  /\ bonds' = Append(bonds,
       [from |-> MapGet(ringOpenings, label), to |-> prevAtomIdx,
        order |-> IF pendingBondOrder # Null THEN pendingBondOrder ELSE 1])
  /\ ~MapHas(ringOpenings', label)
  /\ Len(ringOpenings') = Len(ringOpenings) - 1
  /\ ringCount' = ringCount + 1

RingStep ==
  AtRingLabel /\ parseIter' = parseIter + 1 =>
    /\ OthersKept(LabelRead)
    /\ prevAtomIdx' = prevAtomIdx /\ atoms' = atoms
    /\ IF MapHas(ringOpenings, LabelRead)
         THEN LabelClosed(LabelRead) ELSE LabelOpened(LabelRead)

\* Every other iteration leaves the open labels and the ring count alone.
OtherStep ==
  ~AtRingLabel => ringOpenings' = ringOpenings /\ ringCount' = ringCount

BenzeneParsed ==
  Parsed /\ smiles = benzene =>
    /\ Len(atoms) = 6 /\ \A k \in 1..6 : atoms[k].aromatic
    /\ Len(bonds) = 6 /\ ringCount = 1

\* C23: the occurrences of a ring label alternate between opening and
\* closing: an opening records the current atom; the next occurrence adds
\* one bond from the recorded atom to the atom then current, with the pending
\* order or 1, removes the label and adds 1 to the ring count, which nothing
\* else changes; 'c1ccccc1' gives 6 aromatic atoms, 6 bonds and rings = 1.
RingLabelsAlternate ==
  /\ [][RingStep /\ OtherStep]_vars
  /\ [](pc \in {"tokenize", "validate"} => ringCount = 0)
  /\ []BenzeneParsed

\* Benzene has been parsed: its label 1 was opened and closed.
BenzeneRingClosed ==
  Parsed /\ smiles = benzene /\ ringCount = 1 /\ ringOpenings = <<>>

\* The position of the '(' that the ')' at position k matches: the last '('
\* before k at the depth the ')' returns to.
MatchingOpen(s, k) ==
  LET opens == {m \in 0..(k - 1) :
                  At(s, m) = "("
                  /\ DepthAfter(s, "(", ")", m) = DepthAfter(s, "(", ")", k + 1)}
  IN CHOOSE m \in opens : \A n \in opens : n <= m

\* parseSMILES's locals when its loop reaches position m of s.
RECURSIVE ParseUpTo(_, _, _)
ParseUpTo(s, st, m) ==
  IF st.i < m /\ st.i < Len(s) /\ ~st.threw
    THEN ParseUpTo(s, ParseStep(s, st), m) ELSE st

\* The atom that is current when the loop reaches position m.
CurrentAt(s, m) == ParseUpTo(s, ParseInit, m).prevAtomIdx

\* The iteration that reads a ')' makes the atom of the matching '(' current.
BranchRestored ==
  /\ ParseAt("branch_close") /\ parseIter' = parseIter + 1
  /\ Balanced(smiles, "(", ")")
  => prevAtomIdx' = CurrentAt(smiles, MatchingOpen(smiles, i))

\* The atom created right after a ')' is bonded to the atom of the matching
\* '(', when there is one.
AtomAfterBranch ==
  /\ pc = "parse" /\ Len(atoms') = Len(atoms) + 1
  /\ i > 0 /\ At(smiles, i - 1) = ")"
  /\ Balanced(smiles, "(", ")")
  /\ CurrentAt(smiles, MatchingOpen(smiles, i - 1)) >= 0
  => /\ Len(bonds') = Len(bonds) + 1
     /\ bonds'[Len(bonds')].from = CurrentAt(smiles, MatchingOpen(smiles, i - 1))
     /\ bonds'[Len(bonds')].to = Len(atoms)

AceticAcidParsed ==
  Parsed /\ smiles = aceticAcid =>
    /\ \E k \in 1..Len(bonds) : bonds[k].from = 1 /\ bonds[k].to = 3
    /\ ~\E k \in 1..Len(bonds) : bonds[k].from = 2 /\ bonds[k].to = 3

\* C24: for a string with balanced parentheses, right after the ')' that
\* matches a '(' the current atom is the atom that was current at that '(',
\* so the first atom created after a closed branch is bonded to the branch's
\* attachment atom; in 'CC(=O)O' the final O is bonded to atom 1.
BranchesRestoreAttachment ==
  [][BranchRestored /\ AtomAfterBranch]_vars /\ []AceticAcidParsed

NoBracketAtom == \A k \in 1..Len(smiles) : smiles[k] \notin {"[", "]"}

\* The order a bond symbol stands for.
SymbolOrder == [s \in {"-", ":"} |-> 1] @@ [s \in {"="} |-> 2] @@ [s \in {"#"} |-> 3]

\* An iteration that creates an atom or pairs a ring label leaves no order
\* pending.
OrderConsumed ==
  Len(atoms') > Len(atoms) \/ ringCount' > ringCount \/ Len(bonds') > Len(bonds)
    => pendingBondOrder' = Null

\* An iteration creates at most one bond, of the pending order, or of order 1
\* when none is pending.
OrderUsed ==
  bonds' # bonds =>
    /\ Len(bonds') = Len(bonds) + 1
    /\ SubSeq(bonds', 1, Len(bonds)) = bonds
    /\ bonds'[Len(bonds')].order =
         IF pendingBondOrder = Null THEN 1 ELSE pendingBondOrder

\* Only a bond symbol sets a pending order: its own.
OrderSet ==
  pendingBondOrder' # pendingBondOrder /\ pendingBondOrder' # Null =>
    /\ pc = "parse" /\ At(smiles, i) \in DOMAIN SymbolOrder
    /\ pendingBondOrder' = SymbolOrder[At(smiles, i)]
    /\ bonds' = bonds

\* C25: no bond order is pending right after an atom creation and right
\* after a ring-closure pairing, so a bond symbol sets the order of at most
\* one bond, the first created after it; a bond created while no order is
\* pending has order 1, also between aromatic atoms; every order is 1, 2 or 3.
PendingOrderUsedOnce ==
  /\ [][OrderConsumed /\ OrderUsed /\ OrderSet]_vars
  /\ [](\A k \in 1..Len(bonds) : bonds[k].order \in {1, 2, 3})
  /\ [](pc \in {"tokenize", "validate"} => pendingBondOrder = Null /\ bonds = <<>>)

\* Acetic acid has been parsed: the '=' gave the second bond order 2 and the
\* bond after it has order 1.
DoubleBondThenSingle ==
  /\ Parsed /\ smiles = aceticAcid
  /\ Len(bonds) = 3 /\ bonds[2].order = 2 /\ bonds[3].order = 1

\* parseSMILES: the atom created right after a '.' adds no bond.
NoBondAcrossDot ==
  pc = "parse" /\ i > 0 /\ At(smiles, i - 1) = "." /\ Len(atoms') > Len(atoms)
    => bonds' = bonds

\* The bonds bondCount tallied.
Tallied ==
  bondTally.value.result.single + bondTally.value.result.double
  + bondTally.value.result.triple + bondTally.value.result.aromatic

\* C26: a '.' breaks connectivity in parseSMILES and in the token passes of
\* atomCount and bondCount: the first atom after a '.' is not bonded to the
\* atom before it, no bond is recorded or tallied for the pair and no bond
\* order is added to either atom; for 'C.C' each carbon keeps four implicit
\* hydrogens and no bond is counted.
DotBreaksConnectivity ==
  /\ [][NoBondAcrossDot]_vars
  /\ [](pc = "done" /\ smiles = twoMethanes =>
          /\ bonds = <<>>
          /\ ~counts.threw
          /\ counts.value.counts = (<<"C">> :> 2) @@ (<<"H">> :> 8)
          /\ ~bondTally.threw /\ Tallied = 0)

\* The atoms joined to the atoms of `from` by the bonds of bondList other
\* than the bond of index skip (from 0), in at most steps steps.
RECURSIVE JoinedWithout(_, _, _, _)
JoinedWithout(bondList, skip, from, steps) ==
  IF steps = 0 THEN from
  ELSE JoinedWithout(bondList, skip,
         from \cup {bondList[k].to : k \in {j \in 1..Len(bondList) :
                                              j - 1 # skip /\ bondList[j].from \in from}}
              \cup {bondList[k].from : k \in {j \in 1..Len(bondList) :
                                                j - 1 # skip /\ bondList[j].to \in from}},
         steps - 1)

\* The ends of the bond of index k stay connected when that bond is removed.
OnCycle(bondList, k, n) ==
  bondList[k + 1].to \in JoinedWithout(bondList, k, {bondList[k + 1].from}, n)

\* C27: for every bond graph with valid endpoint indices (several
\* components, parallel bonds and self-loops allowed) _findRingBonds returns
\* exactly the indices of the bonds whose two ends stay connected after that
\* bond alone is removed; the other bonds are the bridges.
RingBondsAreCycleBonds ==
  pc = "ringBondsReturned" =>
    /\ ~ringBonds.threw
    /\ ringBonds.ringBonds =
         {k \in 0..(Len(graph.bonds) - 1) : OnCycle(graph.bonds, k, graph.n)}

\* A graph of two components has been analysed: a pair of parallel bonds
\* with a bridge hanging off it, and an atom with no bond.
ParallelBondsAndBridge ==
  /\ pc = "ringBondsReturned"
  /\ graph.n = 4
  /\ graph.bonds = <<[from |-> 0, to |-> 1, order |-> 1],
                     [from |-> 1, to |-> 2, order |-> 1],
                     [from |-> 0, to |-> 1, order |-> 1]>>
  /\ ringBonds.ringBonds = {0, 2}

\* The text between brackets with its annotations dropped: the isotope, the
\* chirality marks, the charges and the hydrogen counts.
Residue(text) ==
  RemoveWithDigits(RemoveWithDigits(RemoveAt(StripLeadingDigits(text)), {"+", "-"}),
                   {"H"})

\* The element of a residue: the two-letter symbol when its first two
\* letters are in the element table, else its first letter in upper case,
\* and H for the empty residue.
ElementOf(residue) ==
  IF residue = <<>> THEN <<"H">>
  ELSE IF Len(residue) >= 2
          /\ ATOMIC_WEIGHTS(<<toUpperCase(residue[1]), toLowerCase(residue[2])>>) # 0
    THEN <<toUpperCase(residue[1]), toLowerCase(residue[2])>>
  ELSE <<toUpperCase(residue[1])>>

\* C28: resolveElement and parseBracketAtom return the same element symbol
\* for every bracket content: the two-letter symbol when the first two
\* letters of the stripped content match the element table, otherwise the
\* first letter in upper case (never a multi-letter symbol for an unknown
\* residue), and H when nothing remains.
ResolversAgree ==
  pc = "resolved" =>
    /\ bySymbol.resolveElement = bySymbol.parseBracketAtom
    /\ bySymbol.resolveElement = ElementOf(Residue(inner))

\* C29: for every string validate accepts, atomCount, molecularFormula,
\* bondCount, molecularWeight, morganFingerprint and countRotatableBonds each
\* return a value and raise no error, also when a ring label stands before
\* the first atom or right after a '.'.
DescriptorsReturn ==
  pc = "done" /\ vres.valid =>
    /\ ~counts.threw /\ ~formula.threw /\ ~bondTally.threw
    /\ ~weight.threw /\ ~rotatable.threw
    /\ ~MorganThrows(smiles)

\* C30: formatting then parsing a reaction is the identity.  Whenever
\* parseReaction has finished on the string formatReaction made of a
\* reaction, it has returned, and with the reactants, the products and the
\* conditions of that reaction.
FormatThenParseIsIdentity ==
  /\ pc # "reactionThrew"
  /\ pc = "reactionParsed" =>
       /\ reparsed.reactants = reaction.reactants
       /\ reparsed.products = reaction.products
       /\ reparsed.conditions = reaction.conditions

==============================================================================
